---------------------------- MODULE Spec2Model ----------------------------
(***************************************************************************)
(* WayneFS: a block-structured filesystem in one image file with a         *)
(* write-ahead journal (src/waynefs.py, src/journal.py, src/bitmap.py,     *)
(* src/layout.py, src/transaction.py, src/cache.py, src/mkwaynefs.py).     *)
(*                                                                         *)
(* Blocks of the data region are byte strings of BlockSize bytes, so that  *)
(* the directory codec and the pointer arithmetic act on the same bytes as *)
(* in the code.  Blocks of the metadata regions (bitmaps, inode table,     *)
(* journal) are records.  Times (ctime, mtime, atime) are left out.        *)
(***************************************************************************)
EXTENDS Integers, Sequences, FiniteSets, TLC

(***************************************************************************)
(* Geometry of the image (the layout mkwaynefs computes), scaled down.     *)
(***************************************************************************)
BlockSize == 40
TotalBlocks == 16
InodeCount == 8
InodeBitmapStart == 1
BlockBitmapStart == 2
InodeTableStart == 3
JournalAreaStart == 4
JournalAreaBlocks == 7
DataStart == JournalAreaStart + JournalAreaBlocks
LogStart == JournalAreaStart + 1
LogBlocks == JournalAreaBlocks - 1

ROOT_INO == 0
S_IFMT == 61440
S_IFLNK == 40960
S_IFREG == 32768
S_IFDIR == 16384

AddrsPerBlock == BlockSize \div 4
SINGLY_LIMIT == 10
DOUBLY_LIMIT == SINGLY_LIMIT + AddrsPerBlock
MAX_BLOCKS == 10 + AddrsPerBlock + (AddrsPerBlock * AddrsPerBlock)

Blocks == 0 .. (TotalBlocks - 1)

(***************************************************************************)
(* Bounds of the model.                                                    *)
(***************************************************************************)
MaxOps == 2


(***************************************************************************)
(* Bytes, little-endian integers (struct "<I", "<H") and padding.          *)
(***************************************************************************)
U32(v) == <<v % 256, (v \div 256) % 256, (v \div 65536) % 256, (v \div 16777216) % 256>>

U16(v) == <<v % 256, (v \div 256) % 256>>

GetU32(b, off) == b[off + 1] + 256 * b[off + 2] + 65536 * b[off + 3] + 16777216 * b[off + 4]

GetU16(b, off) == b[off + 1] + 256 * b[off + 2]

ZeroBytes(n) == [i \in 1 .. n |-> 0]

Ljust(b, n) == IF Len(b) >= n THEN b ELSE b \o ZeroBytes(n - Len(b))

\* b[off : off+n] := v   (off counted from 0, Len(v) = n)
Splice(b, off, v) == [i \in 1 .. Len(b) |-> IF i > off /\ i <= off + Len(v) THEN v[i - off] ELSE b[i]]

(***************************************************************************)
(* Block contents.  A block of the data region is a byte string; the      *)
(* blocks of the metadata regions are records of what the bytes encode.    *)
(***************************************************************************)
Raw(b) == [k |-> "raw", b |-> b]

ZeroBlock == Raw(ZeroBytes(BlockSize))

NoPage == [k |-> "nopage"]

SuperBlock == [k |-> "sb"]

BitmapBlock(bits) == [k |-> "bitmap", bits |-> bits]

EmptyDirect == [i \in 0 .. 11 |-> 0]

\* Inode.empty(mode): nlink 0, size 0, twelve zero pointers
InodeEmpty(mode) == [mode |-> mode, nlink |-> 0, size |-> 0, direct |-> EmptyDirect]

FreeInode == InodeEmpty(0)

InodeTableBlock(inodes) == [k |-> "itable", inodes |-> inodes]

JournalSuperblock(head, tail, last_tid) == [k |-> "jsb", start_block |-> LogStart, num_blocks |-> LogBlocks, head |-> head, tail |-> tail, last_tid |-> last_tid]

DescriptorBlock(tid, addrs) == [k |-> "desc", tid |-> tid, addrs |-> addrs]

CommitBlock(tid) == [k |-> "commit", tid |-> tid]

ceil_div(a, b) == (a + b - 1) \div b

\* mode & S_IFMT for a 16-bit mode
FileType(mode) == (mode \div 4096) * 4096

(***************************************************************************)
(* Names are byte strings: "." is <<46>>, "a" is <<97>>.                   *)
(***************************************************************************)
Dot == <<46>>

DotDot == <<46, 46>>

NameA == <<97>>

NameB == <<98>>

(***************************************************************************)
(* DictEnDecoder: the directory codec.                                     *)
(***************************************************************************)
RECURSIVE PackEntries(_)
PackEntries(entries) ==
    IF entries = <<>> THEN <<>>
    ELSE U32(entries[1][1]) \o U16(Len(entries[1][2])) \o entries[1][2] \o PackEntries(Tail(entries))

pack_dir(entries) == LET data == PackEntries(entries) IN U32(Len(data)) \o data

\* name_bytes.decode("utf-8") succeeds (bytes below 128 are ASCII)
Utf8Ok(name) == \A i \in 1 .. Len(name) : name[i] < 128

RECURSIVE UnpackEntries(_, _)
UnpackEntries(data_slice, offset) ==
    IF offset >= Len(data_slice) THEN <<>>
    ELSE IF offset + 6 > Len(data_slice) THEN <<>>
    ELSE LET ino == GetU32(data_slice, offset)
             nlen == GetU16(data_slice, offset + 4)
         IN IF offset + 6 + nlen > Len(data_slice) THEN <<>>
            ELSE LET name == SubSeq(data_slice, offset + 7, offset + 6 + nlen)
                 IN IF ~Utf8Ok(name) THEN <<>>
                    ELSE <<<<ino, name>>>> \o UnpackEntries(data_slice, offset + 6 + nlen)

unpack_dir(raw) ==
    IF Len(raw) < 4 THEN <<>>
    ELSE LET total_len == GetU32(raw, 0)
             effective_data_end == IF 4 + total_len > Len(raw) THEN Len(raw) ELSE 4 + total_len
         IN IF total_len = 0 THEN <<>>
            ELSE UnpackEntries(SubSeq(raw, 5, effective_data_end), 0)


(***************************************************************************)
(* The state of the mounted filesystem, as one record that the operations  *)
(* below take and return:                                                  *)
(*   disk     the image, block address -> block                            *)
(*   cache    WayneFS.page_cache, block address -> block or NoPage         *)
(*   ibm, bbm the bits set in inode_bitmap.buf and block_bitmap.buf        *)
(*   jsb      Journal.journal_sb (in memory), tid  Journal.next_tid        *)
(*   dc       WayneFS.dentry_cache, a set of <<path, ino>>                 *)
(*   oft      the inodes of the entries of WayneFS.open_file_table         *)
(*   wlog     the device writes issued so far by the running operation     *)
(*   err      "ok" or the exception raised, ret  the value returned        *)
(* A call's result is bound once, as the element of a singleton set:       *)
(*   CHOOSE r \in {After(s1) : s1 \in {Call(s)}} : TRUE                    *)
(* is "s1 = Call(s); return After(s1)".                                    *)
(***************************************************************************)
\* the outcomes that are not followed further: a read or write that leaves
\* the data region of the image, and the call that does not return
NotFollowed == {"BeyondData", "NoReturn"}

Raise(s, e) == IF s.err \in NotFollowed THEN s ELSE [s EXCEPT !.err = e]

Return(s, v) == [s EXCEPT !.ret = v]

\* the exceptions that "except OSError" catches
IsOSError(e) == e \in {"ENOENT", "EEXIST", "ENOSPC", "EPERM", "ENOTEMPTY", "EISDIR", "EFBIG", "EBADF"}

\* Disk.write_block: one device write; st names the step that issues it
DiskWrite(s, a, d, st) == [s EXCEPT !.disk[a] = d, !.wlog = Append(@, [a |-> a, d |-> d, st |-> st])]

\* the blocks the filesystem reads and writes as bytes
DataBlocks == DataStart .. (TotalBlocks - 1)

\* WayneFS._read_block_cached
ReadBlockCached(s, block_addr) ==
    IF block_addr \notin DataBlocks THEN Return(Raise(s, "BeyondData"), ZeroBlock)
    ELSE IF s.cache[block_addr] # NoPage THEN Return(s, s.cache[block_addr])
    ELSE [s EXCEPT !.cache[block_addr] = s.disk[block_addr], !.ret = s.disk[block_addr]]

\* WayneFS._write_block_cached
WriteBlockCached(s, block_addr, data) ==
    IF block_addr \notin DataBlocks THEN Raise(s, "BeyondData")
    ELSE [s EXCEPT !.disk[block_addr] = data,
                   !.wlog = Append(@, [a |-> block_addr, d |-> data, st |-> "direct"]),
                   !.cache[block_addr] = data]

(***************************************************************************)
(* Bitmap (src/bitmap.py).  Both bitmaps are built over sb.total_blocks    *)
(* items.                                                                  *)
(***************************************************************************)
BitmapItems == TotalBlocks

\* Bitmap.find_free_entry: the first clear index at or above start_idx, or -1
find_free_entry(bits, start_idx) ==
    LET free == {i \in start_idx .. (BitmapItems - 1) : i \notin bits}
    IN IF free = {} THEN -1 ELSE CHOOSE i \in free : \A j \in free : i <= j

Max(a, b) == IF a >= b THEN a ELSE b

\* InodeBitmap.find_free_inode / BlockBitmap.find_free_block
find_free_inode(bits, start_idx) == find_free_entry(bits, Max(1, start_idx))

find_free_block(bits, start_idx) == find_free_entry(bits, Max(1, start_idx))

\* WayneFS._alloc_inode
AllocInode(s) ==
    IF find_free_inode(s.ibm, 1) < 0 THEN Raise(s, "ENOSPC")
    ELSE [s EXCEPT !.ibm = @ \cup {find_free_inode(@, 1)}, !.ret = find_free_inode(s.ibm, 1)]

\* WayneFS._free_inode (Bitmap.clear raises IndexError outside 0..total_items-1)
FreeInodeBit(s, ino) ==
    IF ino \notin 0 .. (BitmapItems - 1) THEN Raise(s, "IndexError")
    ELSE [s EXCEPT !.ibm = @ \ {ino}]

\* an allocation that takes the clear bit of the highest index
AllocFromLast(s) ==
    IF \A b \in DataBlocks : b \in s.bbm THEN Raise(s, "ENOSPC")
    ELSE [s EXCEPT !.bbm = @ \cup {CHOOSE b \in DataBlocks \ @ : \A c \in DataBlocks \ @ : c <= b},
                   !.ret = CHOOSE b \in DataBlocks \ s.bbm : \A c \in DataBlocks \ s.bbm : c <= b]

\* WayneFS._alloc_block
AllocBlock(s) ==
    IF find_free_block(s.bbm, DataStart) < 0 THEN Raise(s, "ENOSPC")
    ELSE [s EXCEPT !.bbm = @ \cup {find_free_block(@, DataStart)}, !.ret = find_free_block(s.bbm, DataStart)]

\* WayneFS._free_block
FreeBlock(s, blk_idx) ==
    IF blk_idx \notin 0 .. (BitmapItems - 1) THEN Raise(s, "IndexError")
    ELSE [s EXCEPT !.bbm = @ \ {blk_idx}]

(***************************************************************************)
(* Transaction (src/transaction.py): tid, the insertion-ordered            *)
(* write_buffer and the ordered_data_blocks set.                           *)
(***************************************************************************)
NewTransaction(tid) == [tid |-> tid, write_buffer |-> <<>>, ordered_data_blocks |-> {}]

BufferIndex(buf, addr) == {i \in 1 .. Len(buf) : buf[i].a = addr}

\* a write buffer that is a list of every staging, in order
BufferAppend(buf, final_block_addr, block_data) ==
    Append(buf, [a |-> final_block_addr, d |-> block_data])

\* write_buffer[final_block_addr] = block_data: a dict assignment, which
\* keeps a key's first position
BufferPut(buf, final_block_addr, block_data) ==
    IF BufferIndex(buf, final_block_addr) = {} THEN Append(buf, [a |-> final_block_addr, d |-> block_data])
    ELSE [buf EXCEPT ![CHOOSE i \in BufferIndex(buf, final_block_addr) : TRUE].d = block_data]

\* Transaction.write
TxWrite(tx, final_block_addr, block_data) ==
    [tx EXCEPT !.write_buffer = BufferPut(@, final_block_addr, block_data)]

\* Bitmap.flush(tx) of the filesystem's two bitmaps: one bitmap block each,
\* its bytes filling the block as on the image mkwaynefs makes by default
\* (128 MB, 4096-byte blocks)
InodeBitmapFlush(s, tx) == TxWrite(tx, InodeBitmapStart, BitmapBlock(s.ibm))

BlockBitmapFlush(s, tx) == TxWrite(tx, BlockBitmapStart, BitmapBlock(s.bbm))

(***************************************************************************)
(* InodeTable (src/layout.py).  read goes to the device.  The write that   *)
(* takes a transaction stages the block that holds the record, read from   *)
(* the transaction when it is staged there and from the device otherwise.  *)
(***************************************************************************)
IGet(s, ino) == s.disk[InodeTableStart].inodes[ino]

\* the staged inode-table block with one record replaced
BufferPutInode(buf, base, ino, inode) ==
    IF BufferIndex(buf, InodeTableStart) = {} THEN Append(buf, [a |-> InodeTableStart, d |-> [base EXCEPT !.inodes[ino] = inode]])
    ELSE [buf EXCEPT ![CHOOSE i \in BufferIndex(buf, InodeTableStart) : TRUE].d.inodes[ino] = inode]

InodeTableWrite(s, tx, ino, inode) ==
    [tx EXCEPT !.write_buffer = BufferPutInode(@, s.disk[InodeTableStart], ino, inode)]

(***************************************************************************)
(* Journal (src/journal.py).                                               *)
(***************************************************************************)
\* Journal._get_next_log_block
get_next_log_block(jsb, current_block) ==
    jsb.start_block + (((current_block - jsb.start_block) + 1) % jsb.num_blocks)

JsbBlock(jsb) == [jsb EXCEPT !.k = "jsb"]

\* commit, "descriptor block": written at the tail; ret is curr_block_no
CommitDescriptor(s, tx) ==
    [s EXCEPT !.disk[s.jsb.tail] = DescriptorBlock(tx.tid, [i \in 1 .. Len(tx.write_buffer) |-> tx.write_buffer[i].a]),
              !.wlog = Append(@, [a |-> s.jsb.tail, d |-> DescriptorBlock(tx.tid, [i \in 1 .. Len(tx.write_buffer) |-> tx.write_buffer[i].a]), st |-> "desc"]),
              !.ret = s.jsb.tail]

RECURSIVE LogDataWrites(_, _, _)
\* commit, "data block": entry i goes to the ring slot after curr_block_no
LogDataWrites(s, buf, i) ==
    IF i > Len(buf) THEN s
    ELSE CHOOSE r \in {LogDataWrites(s1, buf, i + 1) :
            s1 \in {[s EXCEPT !.disk[get_next_log_block(s.jsb, s.ret)] = buf[i].d,
                              !.wlog = Append(@, [a |-> get_next_log_block(s.jsb, s.ret), d |-> buf[i].d, st |-> "logdata"]),
                              !.ret = get_next_log_block(s.jsb, s.ret)]}} : TRUE

\* commit, "commit block"
CommitRecord(s, tx) ==
    [s EXCEPT !.disk[get_next_log_block(s.jsb, s.ret)] = CommitBlock(tx.tid),
              !.wlog = Append(@, [a |-> get_next_log_block(s.jsb, s.ret), d |-> CommitBlock(tx.tid), st |-> "commit"]),
              !.ret = get_next_log_block(s.jsb, s.ret)]

\* commit, "update superblock": the tail passes the commit block
CommitTail(s, tx) ==
    CHOOSE r \in {DiskWrite([s EXCEPT !.jsb = jsb], JournalAreaStart, JsbBlock(jsb), "jsb_tail") :
        jsb \in {[s.jsb EXCEPT !.tail = get_next_log_block(s.jsb, s.ret), !.last_tid = tx.tid]}} : TRUE

RECURSIVE CheckpointWrites(_, _, _)
\* commit, "replay": every staged block to its final address
CheckpointWrites(s, buf, i) ==
    IF i > Len(buf) THEN s
    ELSE CheckpointWrites(DiskWrite(s, buf[i].a, buf[i].d, "checkpoint"), buf, i + 1)

\* commit, "update superblock": head = tail
CommitHead(s) ==
    CHOOSE r \in {DiskWrite([s EXCEPT !.jsb = jsb], JournalAreaStart, JsbBlock(jsb), "jsb_head") :
        jsb \in {[s.jsb EXCEPT !.head = s.jsb.tail]}} : TRUE

\* a page of the page cache as Journal.commit takes it: CachedPage
CachedPage(data, dirty) == [k |-> "page", data |-> data, dirty |-> dirty]

\* the ordered-data page marked clean without being written
MarkPageClean(s, block_addr) ==
    IF s.cache[block_addr] # NoPage /\ s.cache[block_addr].dirty
    THEN [s EXCEPT !.cache[block_addr].dirty = FALSE]
    ELSE s

\* commit, the ordered-data page at block_addr: written if cached and dirty
FlushPage(s, block_addr) ==
    IF s.cache[block_addr] # NoPage /\ s.cache[block_addr].dirty
    THEN [DiskWrite(s, block_addr, s.cache[block_addr].data, "ordered") EXCEPT !.cache[block_addr].dirty = FALSE]
    ELSE s

RECURSIVE OrderedFlush(_, _)
\* commit, "for block_addr in tx.ordered_data_blocks", lowest address first
OrderedFlush(s, addrs) ==
    IF addrs = {} THEN s
    ELSE CHOOSE r \in {OrderedFlush(FlushPage(s, a), addrs \ {a}) :
            a \in {b \in addrs : \A c \in addrs : b <= c}} : TRUE

\* Disk.fsync, kept among the device writes to mark its place
Fsync(s) == [s EXCEPT !.wlog = Append(@, [a |-> -1, d |-> NoPage, st |-> "fsync"])]

\* commit, "if tx.ordered_data_blocks"
CommitOrdered(s, tx) ==
    IF tx.ordered_data_blocks = {} THEN s ELSE Fsync(OrderedFlush(s, tx.ordered_data_blocks))

\* the staged blocks written to their final addresses before the journal
\* superblock records the new tail
CommitCheckpointFirst(s, tx) ==
    IF tx.write_buffer = <<>> /\ tx.ordered_data_blocks = {} THEN s
    ELSE CHOOSE r \in {CommitHead(s5) :
            s5 \in {CommitTail(s4, tx) :
            s4 \in {[CheckpointWrites(s3, tx.write_buffer, 1) EXCEPT !.ret = s3.ret] :
            s3 \in {CommitRecord(s2, tx) :
            s2 \in {LogDataWrites(s1, tx.write_buffer, 1) :
            s1 \in {CommitDescriptor(s0, tx) :
            s0 \in {CommitOrdered(s, tx)}}}}}}} : TRUE

\* Journal.commit
CommitTx(s, tx) ==
    IF tx.write_buffer = <<>> /\ tx.ordered_data_blocks = {} THEN s
    ELSE CHOOSE r \in {CommitHead(s5) :
            s5 \in {CheckpointWrites(s4, tx.write_buffer, 1) :
            s4 \in {CommitTail(s3, tx) :
            s3 \in {CommitRecord(s2, tx) :
            s2 \in {LogDataWrites(s1, tx.write_buffer, 1) :
            s1 \in {CommitDescriptor(s0, tx) :
            s0 \in {CommitOrdered(s, tx)}}}}}}} : TRUE

Commit(s, tx0) == CHOOSE r \in {CommitTx(s, tx) : tx \in {tx0}} : TRUE

\* Journal.begin: next_tid is incremented, then names the transaction
Begin(s) == [s EXCEPT !.tid = @ + 1, !.ret = NewTransaction(s.tid + 1)]

(***************************************************************************)
(* Paths.  A path is [abs, segs]: "/a/b" is [abs |-> TRUE, segs |-> <<a,   *)
(* b>>]; the parent path that _split builds, "a", has abs = FALSE, and is  *)
(* another key of the dentry cache than "/a".                              *)
(***************************************************************************)
Path(abs, segs) == [abs |-> abs, segs |-> segs]

\* WayneFS._split(path)[0] and [1]
SplitParent(path) == Path(FALSE, SubSeq(path.segs, 1, Len(path.segs) - 1))

SplitName(path) == path.segs[Len(path.segs)]

\* DentryCache.get: the cached inode, or -1 for None
DcGet(dc, path) == IF \E e \in dc : e[1] = path THEN (CHOOSE e \in dc : e[1] = path)[2] ELSE -1

\* DentryCache.put
DcPut(dc, path, ino) == {e \in dc : e[1] # path} \cup {<<path, ino>>}

\* DentryCache.remove
DcRemove(dc, path) == {e \in dc : e[1] # path}

\* WayneFS._read_dir_entries
ReadDirEntries(s, curr_inode) ==
    CHOOSE r \in {Return(s1, unpack_dir(s1.ret.b)) : s1 \in {ReadBlockCached(s, curr_inode.direct[0])}} : TRUE

\* WayneFS._write_dir_entries; returns the inode, its size updated
WriteDirEntries(s, curr_inode, entries) ==
    IF Len(pack_dir(entries)) > BlockSize THEN Raise(s, "ENOSPC")
    ELSE IF curr_inode.direct[0] = ROOT_INO THEN Return(s, curr_inode)
    ELSE Return(WriteBlockCached(s, curr_inode.direct[0], Raw(Ljust(pack_dir(entries), BlockSize))),
                [curr_inode EXCEPT !.size = Len(pack_dir(entries))])

\* the inode of the first entry called name, or -1 for None
FindName(entries, name) ==
    IF \A i \in 1 .. Len(entries) : entries[i][2] # name THEN -1
    ELSE entries[CHOOSE i \in 1 .. Len(entries) : entries[i][2] = name /\ \A j \in 1 .. (i - 1) : entries[j][2] # name][1]

HasName(entries, name) == \E i \in 1 .. Len(entries) : entries[i][2] = name

\* [entry for entry in entries if entry[1] != name]
WithoutName(entries, name) == SelectSeq(entries, LAMBDA e : e[2] # name)

\* the entries whose inode is not ino
WithoutIno(entries, ino) == SelectSeq(entries, LAMBDA e : e[1] # ino)

(***************************************************************************)
(* The logical-to-physical block translator.                               *)
(***************************************************************************)
\* an index block's entry read: unpack("<I", content[off : off + 4])
ReadEntry(s, index_addr, ptr_offset) ==
    CHOOSE r \in {Return(s1, GetU32(s1.ret.b, ptr_offset)) : s1 \in {ReadBlockCached(s, index_addr)}} : TRUE

\* the second level of the double-indirect lookup, s.ret being l2_addr
ReadEntryAt(s, ptr_offset) == ReadEntry(s, s.ret, ptr_offset)

\* WayneFS._get_data_block_addr
GetDataBlockAddr(s, inode, logical_block_idx) ==
    IF logical_block_idx < SINGLY_LIMIT THEN Return(s, inode.direct[logical_block_idx])
    ELSE IF logical_block_idx < DOUBLY_LIMIT THEN ReadEntry(s, inode.direct[10], (logical_block_idx - SINGLY_LIMIT) * 4)
    ELSE CHOOSE r \in {ReadEntryAt(s1, ((logical_block_idx - DOUBLY_LIMIT) % AddrsPerBlock) * 4) :
            s1 \in {ReadEntry(s, inode.direct[11], ((logical_block_idx - DOUBLY_LIMIT) \div AddrsPerBlock) * 4)}} : TRUE

\* "addr = _alloc_block(); content[off : off + 4] = pack(addr); write back",
\* s being the state after the allocation and content the block read before
StoreEntry(s, index_addr, content, ptr_offset) ==
    IF s.err # "ok" THEN s
    ELSE Return(WriteBlockCached(s, index_addr, Raw(Ljust(Splice(content, ptr_offset, U32(s.ret)), BlockSize))), s.ret)

\* an index block's entry, allocated when it reads 0; s is the state after
\* the read of the index block
AllocEntry(s, index_addr, ptr_offset) ==
    IF GetU32(s.ret.b, ptr_offset) # 0 THEN Return(s, GetU32(s.ret.b, ptr_offset))
    ELSE CHOOSE r \in {StoreEntry(s1, index_addr, s.ret.b, ptr_offset) : s1 \in {AllocBlock(s)}} : TRUE

GetOrAllocEntry(s, index_addr, ptr_offset) ==
    IF s.err # "ok" THEN s
    ELSE CHOOSE r \in {AllocEntry(s1, index_addr, ptr_offset) : s1 \in {ReadBlockCached(s, index_addr)}} : TRUE

\* inode.direct[i], allocated when it is 0: ret is [inode, addr]
GetOrAllocDirect(s, inode, i) ==
    IF inode.direct[i] # 0 THEN Return(s, [inode |-> inode, addr |-> inode.direct[i]])
    ELSE CHOOSE r \in {IF s1.err # "ok" THEN s1
                       ELSE Return(s1, [inode |-> [inode EXCEPT !.direct[i] = s1.ret], addr |-> s1.ret]) :
            s1 \in {AllocBlock(s)}} : TRUE

\* the entry of an index block whose address is s.ret.addr; ret keeps the inode
GetOrAllocUnder(s, ptr_offset) ==
    IF s.err # "ok" THEN s
    ELSE CHOOSE r \in {IF s1.err # "ok" THEN s1 ELSE Return(s1, [inode |-> s.ret.inode, addr |-> s1.ret]) :
            s1 \in {GetOrAllocEntry(s, s.ret.addr, ptr_offset)}} : TRUE

\* WayneFS._get_or_alloc_data_block_addr; ret is [inode, addr], the inode
\* as the call leaves it
GetOrAllocDataBlockAddr(s, inode, logical_block_idx) ==
    IF logical_block_idx < SINGLY_LIMIT THEN GetOrAllocDirect(s, inode, logical_block_idx)
    ELSE IF logical_block_idx < DOUBLY_LIMIT THEN
        CHOOSE r \in {GetOrAllocUnder(s1, (logical_block_idx - SINGLY_LIMIT) * 4) :
            s1 \in {GetOrAllocDirect(s, inode, 10)}} : TRUE
    ELSE
        CHOOSE r \in {GetOrAllocUnder(s2, ((logical_block_idx - DOUBLY_LIMIT) % AddrsPerBlock) * 4) :
            s2 \in {GetOrAllocUnder(s1, ((logical_block_idx - DOUBLY_LIMIT) \div AddrsPerBlock) * 4) :
            s1 \in {GetOrAllocDirect(s, inode, 11)}}} : TRUE

\* "if addr != 0: _free_block(addr); content[off : off + 4] = pack(0);
\* write back", s being the state after the read of the index block
ClearEntry(s, index_addr, ptr_offset) ==
    IF GetU32(s.ret.b, ptr_offset) = 0 THEN s
    ELSE CHOOSE r \in {IF s1.err # "ok" THEN s1
                       ELSE WriteBlockCached(s1, index_addr, Raw(Ljust(Splice(s.ret.b, ptr_offset, U32(0)), BlockSize))) :
            s1 \in {FreeBlock(s, GetU32(s.ret.b, ptr_offset))}} : TRUE

FreeEntry(s, index_addr, ptr_offset) ==
    CHOOSE r \in {ClearEntry(s1, index_addr, ptr_offset) : s1 \in {ReadBlockCached(s, index_addr)}} : TRUE

\* the double-indirect case of _free_data_blocks for one logical block, s
\* being the state after the read of the level-1 entry (ret is l2_addr)
FreeUnder(s, ptr_offset) ==
    IF s.ret = 0 THEN s ELSE FreeEntry(s, s.ret, ptr_offset)

\* one iteration of the loop of _free_data_blocks; ret is the inode
FreeDataBlock(s, inode, idx) ==
    IF idx < SINGLY_LIMIT THEN
        IF inode.direct[idx] # 0 THEN Return(FreeBlock(s, inode.direct[idx]), [inode EXCEPT !.direct[idx] = 0])
        ELSE Return(s, inode)
    ELSE IF idx < DOUBLY_LIMIT THEN
        IF inode.direct[10] = 0 THEN Return(s, inode)
        ELSE Return(FreeEntry(s, inode.direct[10], (idx - SINGLY_LIMIT) * 4), inode)
    ELSE
        CHOOSE r \in {Return(FreeUnder(s1, ((idx - DOUBLY_LIMIT) % AddrsPerBlock) * 4), inode) :
            s1 \in {ReadEntry(s, inode.direct[11], ((idx - DOUBLY_LIMIT) \div AddrsPerBlock) * 4)}} : TRUE

RECURSIVE FreeDataBlocks(_, _, _)
\* WayneFS._free_data_blocks over range(idx, end_block + 1), s.ret being
\* the inode; the loop breaks at a double-indirect index without direct[11]
FreeDataBlocks(s, idx, end_block) ==
    IF s.err # "ok" \/ idx > end_block THEN s
    ELSE IF idx >= DOUBLY_LIMIT /\ s.ret.direct[11] = 0 THEN s
    ELSE CHOOSE r \in {FreeDataBlocks(s1, idx + 1, end_block) : s1 \in {FreeDataBlock(s, s.ret, idx)}} : TRUE

RECURSIVE FreeListed(_, _, _)
\* "for i in range(ADDRS_PER_BLOCK): l2_addr = unpack(content[ptr : ptr + 4]);
\*  if l2_addr != 0: _free_block(l2_addr) else: break"
FreeListed(s, content, i) ==
    IF s.err # "ok" \/ i >= AddrsPerBlock THEN s
    ELSE IF GetU32(content, 4 * i) = 0 THEN s
    ELSE CHOOSE r \in {FreeListed(s1, content, i + 1) : s1 \in {FreeBlock(s, GetU32(content, 4 * i))}} : TRUE

\* the level-2 index blocks that index block addr lists, then addr itself
FreeDoubleIndirect(s, addr) ==
    CHOOSE r \in {IF s2.err # "ok" THEN s2 ELSE FreeBlock(s2, addr) :
        s2 \in {FreeListed(s1, s1.ret.b, 0) :
        s1 \in {ReadBlockCached(s, addr)}}} : TRUE

(***************************************************************************)
(* WayneFS._lookup.                                                        *)
(***************************************************************************)
MaxWalk == 8

RECURSIVE SplitSegs(_, _)
\* [seg for seg in name.split("/") if seg], cur being the segment read so far
SplitSegs(bytes, cur) ==
    IF bytes = <<>> THEN (IF cur = <<>> THEN <<>> ELSE <<cur>>)
    ELSE IF bytes[1] = 47 THEN (IF cur = <<>> THEN <<>> ELSE <<cur>>) \o SplitSegs(Tail(bytes), <<>>)
    ELSE SplitSegs(Tail(bytes), Append(cur, bytes[1]))

RECURSIVE PackDirect(_, _)
\* struct.pack("<12I", *direct)
PackDirect(direct, i) == IF i > 11 THEN <<>> ELSE U32(direct[i]) \o PackDirect(direct, i + 1)

\* _read_block_cached(addr), addr being the value just returned
ReadBlockAt(s) == ReadBlockCached(s, s.ret)

RECURSIVE ReadBlocks(_, _, _, _, _)
\* "target += _read_block_cached(_get_data_block_addr(inode, idx))" over
\* idx .. end_block_idx, target being the bytes read so far
ReadBlocks(s, inode, idx, end_block_idx, target) ==
    IF idx > end_block_idx THEN Return(s, target)
    ELSE CHOOSE r \in {ReadBlocks(s2, inode, idx + 1, end_block_idx, target \o s2.ret.b) :
            s2 \in {ReadBlockAt(s1) : s1 \in {GetDataBlockAddr(s, inode, idx)}}} : TRUE

\* the first target_len bytes of a symbolic link's target: inline in
\* direct[] up to 48 bytes, else in blocks
LinkTarget(s, inode) ==
    IF inode.size <= 48 THEN Return(s, SubSeq(PackDirect(inode.direct, 0), 1, inode.size))
    ELSE CHOOSE r \in {Return(s1, SubSeq(s1.ret, 1, inode.size)) :
            s1 \in {ReadBlocks(s, inode, 0, (inode.size - 1) \div BlockSize, <<>>)}} : TRUE

RECURSIVE Walk(_, _, _, _)
\* the while loop of _lookup; stack[1] is the segment popped next, fuel the
\* iterations left before the walk is given up as not returning
Walk(s, stack, curr_ino, fuel) ==
    IF stack = <<>> THEN Return(s, curr_ino)
    ELSE IF fuel = 0 THEN Raise(s, "NoReturn")
    ELSE IF Head(stack) = Dot THEN Walk(s, Tail(stack), curr_ino, fuel - 1)
    ELSE IF FileType(IGet(s, curr_ino).mode) # S_IFDIR THEN Raise(s, "ENOENT")
    ELSE CHOOSE r \in {
            IF name = DotDot THEN Walk(s1, rest, IF found = -1 THEN ROOT_INO ELSE found, fuel - 1)
            ELSE IF found = -1 THEN Raise(s1, "ENOENT")
            ELSE IF FileType(IGet(s1, found).mode) = S_IFLNK /\ rest # <<>> THEN
                CHOOSE r2 \in {
                    IF ~Utf8Ok(s2.ret) THEN Raise(s2, "UnicodeDecodeError")
                    ELSE IF s2.ret # <<>> /\ s2.ret[1] = 47 THEN Walk(s2, SplitSegs(s2.ret, <<>>) \o rest, ROOT_INO, fuel - 1)
                    ELSE Walk(s2, SplitSegs(s2.ret, <<>>) \o <<name>> \o rest, found, fuel - 1)
                  : s2 \in {LinkTarget(s1, IGet(s1, found))}} : TRUE
            ELSE Walk(s1, rest, found, fuel - 1)
          : name \in {Head(stack)}, rest \in {Tail(stack)},
            <<s1, found>> \in {<<d, FindName(d.ret, Head(stack))>> : d \in {ReadDirEntries(s, IGet(s, curr_ino))}}} : TRUE

Lookup(s, path) ==
    IF path.segs = <<>> THEN Return(s, ROOT_INO)
    ELSE IF DcGet(s.dc, path) # -1 THEN Return(s, DcGet(s.dc, path))
    ELSE CHOOSE r \in {IF s1.err # "ok" THEN s1 ELSE [s1 EXCEPT !.dc = DcPut(@, path, s1.ret)] :
            s1 \in {Walk(s, path.segs, ROOT_INO, MaxWalk)}} : TRUE

(***************************************************************************)
(* The filesystem operations.  Each takes the state at the call and        *)
(* returns the state at the return (or at the raise): a transaction scope  *)
(* commits on exit, so the commit's writes are in wlog.  An operation is   *)
(* a chain of definitions, each taking the state its predecessor's last    *)
(* call returned.                                                          *)
(***************************************************************************)
\* the mode argument of create and mkdir: 0o644
MODE == (6 * 64) + (4 * 8) + 4

\* create, the transaction scope; s.ret is the parent's inode
CreateCommit(s, parent_ino, child_ino) ==
    IF s.err # "ok" THEN s
    ELSE CHOOSE r \in {
            [Commit(s1, InodeBitmapFlush(s1,
                        InodeTableWrite(s1,
                        InodeTableWrite(s1, s1.ret, child_ino, [InodeEmpty(S_IFREG + MODE) EXCEPT !.nlink = 1, !.size = 0]),
                        parent_ino, s.ret)))
             EXCEPT !.oft = @ \cup {child_ino}, !.ret = child_ino]
          : s1 \in {Begin(s)}} : TRUE

\* create, the entry appended to the parent; s.ret is child_ino
CreateLink(s, path, parent_ino, parent_inode, parent_entries) ==
    IF s.err # "ok" THEN s
    ELSE CHOOSE r \in {CreateCommit(s1, parent_ino, s.ret) :
            s1 \in {WriteDirEntries(s, parent_inode, Append(parent_entries, <<s.ret, SplitName(path)>>))}} : TRUE

\* create, the name looked for in the parent; s.ret is parent_entries
CreateEntry(s, path, parent_ino, parent_inode) ==
    IF HasName(s.ret, SplitName(path)) THEN Raise(s, "EEXIST")
    ELSE CHOOSE r \in {CreateLink(s1, path, parent_ino, parent_inode, s.ret) : s1 \in {AllocInode(s)}} : TRUE

\* create, after the lookup of the parent; s.ret is parent_ino
CreateIn(s, path) ==
    IF s.err # "ok" THEN s
    ELSE IF FileType(IGet(s, s.ret).mode) # S_IFDIR THEN Raise(s, "ENOENT")
    ELSE CHOOSE r \in {CreateEntry(s1, path, s.ret, IGet(s, s.ret)) :
            s1 \in {ReadDirEntries(s, IGet(s, s.ret))}} : TRUE

\* WayneFS.create
Create(s, path) ==
    CHOOSE r \in {CreateIn(s1, path) : s1 \in {Lookup(s, SplitParent(path))}} : TRUE

\* mkdir, the transaction scope; s.ret is the parent's inode
MkdirCommit(s, parent_ino, child_ino, child_blk) ==
    IF s.err # "ok" THEN s
    ELSE CHOOSE r \in {
            Commit(s1, BlockBitmapFlush(s1, InodeBitmapFlush(s1,
                       InodeTableWrite(s1,
                       InodeTableWrite(s1, s1.ret, child_ino,
                           [InodeEmpty(S_IFDIR + MODE) EXCEPT !.nlink = 2,
                                                              !.size = Len(pack_dir(<<<<child_ino, Dot>>, <<parent_ino, DotDot>>>>)),
                                                              !.direct[0] = child_blk]),
                       parent_ino, [s.ret EXCEPT !.nlink = @ + 1]))))
          : s1 \in {Begin(s)}} : TRUE

\* mkdir, the child's block written and the entry appended; s.ret is child_blk
MkdirData(s, path, parent_ino, parent_inode, parent_entries, child_ino) ==
    IF s.err # "ok" THEN s
    ELSE CHOOSE r \in {MkdirCommit(s1, parent_ino, child_ino, s.ret) :
            s1 \in {WriteDirEntries(
                        WriteBlockCached(s, s.ret, Raw(Ljust(pack_dir(<<<<child_ino, Dot>>, <<parent_ino, DotDot>>>>), BlockSize))),
                        parent_inode, Append(parent_entries, <<child_ino, SplitName(path)>>))}} : TRUE

\* mkdir, the child's block allocated; s.ret is child_ino
MkdirBlock(s, path, parent_ino, parent_inode, parent_entries) ==
    IF s.err # "ok" THEN s
    ELSE CHOOSE r \in {MkdirData(s1, path, parent_ino, parent_inode, parent_entries, s.ret) :
            s1 \in {AllocBlock(s)}} : TRUE

\* mkdir, the name looked for in the parent; s.ret is parent_entries
MkdirEntry(s, path, parent_ino, parent_inode) ==
    IF HasName(s.ret, SplitName(path)) THEN Raise(s, "EEXIST")
    ELSE CHOOSE r \in {MkdirBlock(s1, path, parent_ino, parent_inode, s.ret) : s1 \in {AllocInode(s)}} : TRUE

\* mkdir, after the lookup of the parent; s.ret is parent_ino
MkdirIn(s, path) ==
    IF s.err # "ok" THEN s
    ELSE IF FileType(IGet(s, s.ret).mode) # S_IFDIR THEN Raise(s, "ENOENT")
    ELSE CHOOSE r \in {MkdirEntry(s1, path, s.ret, IGet(s, s.ret)) :
            s1 \in {ReadDirEntries(s, IGet(s, s.ret))}} : TRUE

\* WayneFS.mkdir
Mkdir(s, path) ==
    CHOOSE r \in {MkdirIn(s1, path) : s1 \in {Lookup(s, SplitParent(path))}} : TRUE

\* rmdir, the transaction scope; s.ret is the parent's inode
RmdirCommit(s, path, parent_ino) ==
    IF s.err # "ok" THEN s
    ELSE CHOOSE r \in {
            [Commit(s1, InodeBitmapFlush(s1, BlockBitmapFlush(s1, InodeTableWrite(s1, s1.ret, parent_ino, s.ret))))
             EXCEPT !.dc = DcRemove(@, path)]
          : s1 \in {Begin(s)}} : TRUE

\* rmdir, the parent's entries rewritten; s.ret is old_parent_entries
RmdirParent(s, path, parent_ino, curr_ino) ==
    IF s.err # "ok" THEN s
    ELSE IF Len(s.ret) # Len(WithoutIno(s.ret, curr_ino)) + 1 THEN Raise(s, "AssertionError")
    ELSE IF IGet(s, parent_ino).nlink - 1 < 2 THEN Raise(s, "AssertionError")
    ELSE CHOOSE r \in {RmdirCommit(s1, path, parent_ino) :
            s1 \in {WriteDirEntries(s, [IGet(s, parent_ino) EXCEPT !.nlink = @ - 1], WithoutIno(s.ret, curr_ino))}} : TRUE

\* rmdir, the block and the inode freed; s.ret is curr_entries
RmdirFree(s, path, parent_ino, curr_ino) ==
    IF Len(s.ret) > 2 THEN Raise(s, "ENOTEMPTY")
    ELSE CHOOSE r \in {RmdirParent(s3, path, parent_ino, curr_ino) :
            s3 \in {IF s2.err # "ok" THEN s2 ELSE ReadDirEntries(s2, IGet(s2, parent_ino)) :
            s2 \in {IF s1.err # "ok" THEN s1 ELSE FreeInodeBit(s1, curr_ino) :
            s1 \in {FreeBlock(s, IGet(s, curr_ino).direct[0])}}}} : TRUE

\* rmdir, after the lookup of the path; s.ret is curr_ino
RmdirChild(s, path, parent_ino) ==
    IF s.err # "ok" THEN s
    ELSE IF s.ret = ROOT_INO THEN Raise(s, "EPERM")
    ELSE IF FileType(IGet(s, s.ret).mode) # S_IFDIR THEN Raise(s, "ENOENT")
    ELSE CHOOSE r \in {RmdirFree(s1, path, parent_ino, s.ret) :
            s1 \in {ReadDirEntries(s, IGet(s, s.ret))}} : TRUE

\* rmdir, after the lookup of the parent; s.ret is parent_ino
RmdirIn(s, path) ==
    IF s.err # "ok" THEN s
    ELSE CHOOSE r \in {RmdirChild(s1, path, s.ret) : s1 \in {Lookup(s, path)}} : TRUE

\* WayneFS.rmdir
Rmdir(s, path) ==
    CHOOSE r \in {RmdirIn(s1, path) : s1 \in {Lookup(s, SplitParent(path))}} : TRUE

\* unlink, the end of the transaction scope: the parent's inode and both
\* bitmaps staged, the commit, the dentry dropped.  A raise inside the
\* scope leaves through the commit of a transaction that staged nothing.
UnlinkCommit(s, path, tx, parent_ino, parent_inode) ==
    IF s.err # "ok" THEN s
    ELSE [Commit(s, InodeBitmapFlush(s, BlockBitmapFlush(s, InodeTableWrite(s, tx, parent_ino, parent_inode))))
          EXCEPT !.dc = DcRemove(@, path)]

\* unlink, "if is_regular_or_slow_link": the blocks of the file freed
UnlinkBlocks(s, curr_inode) ==
    CHOOSE r \in {
        IF s2.err # "ok" \/ ceil_div(curr_inode.size, BlockSize) <= DOUBLY_LIMIT THEN s2
        ELSE FreeDoubleIndirect(s2, curr_inode.direct[11]) :
        s2 \in {IF s1.err # "ok" \/ ceil_div(curr_inode.size, BlockSize) <= SINGLY_LIMIT THEN s1
                ELSE FreeBlock(s1, curr_inode.direct[10]) :
        s1 \in {FreeDataBlocks(Return(s, curr_inode), 0, ceil_div(curr_inode.size, BlockSize))}}} : TRUE

\* unlink, the transaction scope; s.ret is the transaction, curr_inode has
\* its link count decremented
UnlinkTx(s, path, parent_ino, parent_inode, curr_ino, curr_inode) ==
    IF curr_inode.nlink = 0 THEN
        CHOOSE r \in {UnlinkCommit(s2, path, s.ret, parent_ino, parent_inode) :
            s2 \in {IF s1.err # "ok" THEN s1 ELSE FreeInodeBit(s1, curr_ino) :
            s1 \in {IF FileType(curr_inode.mode) # S_IFLNK \/ curr_inode.size > 48
                    THEN UnlinkBlocks(s, curr_inode) ELSE s}}} : TRUE
    ELSE UnlinkCommit(s, path, InodeTableWrite(s, s.ret, curr_ino, curr_inode), parent_ino, parent_inode)

\* unlink, after the parent's entries are written back; s.ret is the
\* parent's inode
UnlinkInode(s, path, parent_ino, curr_ino) ==
    IF s.err # "ok" THEN s
    ELSE IF FileType(IGet(s, curr_ino).mode) = S_IFDIR THEN Raise(s, "EISDIR")
    ELSE CHOOSE r \in {UnlinkTx(s1, path, parent_ino, s.ret, curr_ino, [IGet(s, curr_ino) EXCEPT !.nlink = @ - 1]) :
            s1 \in {Begin(s)}} : TRUE

\* unlink, the name taken out of the parent; s.ret is old_parent_entries
UnlinkEntry(s, path, parent_ino, curr_ino) ==
    IF Len(s.ret) # Len(WithoutName(s.ret, SplitName(path))) + 1 THEN Raise(s, "AssertionError")
    ELSE CHOOSE r \in {UnlinkInode(s1, path, parent_ino, curr_ino) :
            s1 \in {WriteDirEntries(s, IGet(s, parent_ino), WithoutName(s.ret, SplitName(path)))}} : TRUE

\* unlink, after the lookup of the path; s.ret is curr_ino
UnlinkChild(s, path, parent_ino) ==
    IF s.err # "ok" THEN s
    ELSE CHOOSE r \in {UnlinkEntry(s1, path, parent_ino, s.ret) :
            s1 \in {ReadDirEntries(s, IGet(s, parent_ino))}} : TRUE

\* unlink, after the lookup of the parent; s.ret is parent_ino
UnlinkIn(s, path) ==
    IF s.err # "ok" THEN s
    ELSE CHOOSE r \in {UnlinkChild(s1, path, s.ret) : s1 \in {Lookup(s, path)}} : TRUE

\* WayneFS.unlink
Unlink(s, path) ==
    CHOOSE r \in {UnlinkIn(s1, path) : s1 \in {Lookup(s, SplitParent(path))}} : TRUE

RECURSIVE AllocBlocks(_, _, _)
\* write, "for curr_block_idx in range(start, end + 1):
\* _get_or_alloc_data_block_addr(curr_inode, curr_block_idx)"; s.ret is
\* curr_inode
AllocBlocks(s, idx, end_block_idx) ==
    IF s.err # "ok" \/ idx > end_block_idx THEN s
    ELSE CHOOSE r \in {AllocBlocks(s2, idx + 1, end_block_idx) :
            s2 \in {IF s1.err # "ok" THEN s1 ELSE Return(s1, s1.ret.inode) :
            s1 \in {GetOrAllocDataBlockAddr(s, s.ret, idx)}}} : TRUE

\* write, the block a slice of data goes over: the cached block when the
\* write is partial, else zeros; s.ret is addr
WriteSource(s, is_partial_write) ==
    IF is_partial_write
    THEN CHOOSE r \in {Return(s1, [addr |-> s.ret, b |-> s1.ret.b]) : s1 \in {ReadBlockCached(s, s.ret)}} : TRUE
    ELSE Return(s, [addr |-> s.ret, b |-> ZeroBytes(BlockSize)])

\* write, "curr_block[start : end] = data[cursor : cursor + n];
\* _write_block_cached(addr, curr_block)"; s.ret is [addr, b]
WriteSlice(s, data, data_cursor, curr_start_offset, curr_end_offset) ==
    WriteBlockCached(s, s.ret.addr,
        Raw(Splice(s.ret.b, curr_start_offset, SubSeq(data, data_cursor + 1, data_cursor + (curr_end_offset - curr_start_offset)))))

\* write, one iteration of the "write buffer" loop
WriteBlock(s, inode, data, offset, idx) ==
    LET start_block_idx == offset \div BlockSize
        end_block_idx == (offset + Len(data) - 1) \div BlockSize
        curr_start_offset == IF idx = start_block_idx THEN offset % BlockSize ELSE 0
        curr_end_offset == IF idx = end_block_idx THEN ((offset + Len(data) - 1) % BlockSize) + 1 ELSE BlockSize
        data_cursor == IF idx = start_block_idx THEN 0 ELSE (idx * BlockSize) - offset
    IN CHOOSE r \in {WriteSlice(s2, data, data_cursor, curr_start_offset, curr_end_offset) :
            s2 \in {WriteSource(s1, curr_start_offset # 0 \/ curr_end_offset # BlockSize) :
            s1 \in {GetDataBlockAddr(s, inode, idx)}}} : TRUE

RECURSIVE WriteBlocks(_, _, _, _, _, _)
\* write, the "write buffer" loop; returns the inode
WriteBlocks(s, inode, data, offset, idx, end_block_idx) ==
    IF s.err # "ok" THEN s
    ELSE IF idx > end_block_idx THEN Return(s, inode)
    ELSE CHOOSE r \in {WriteBlocks(s1, inode, data, offset, idx + 1, end_block_idx) :
            s1 \in {WriteBlock(s, inode, data, offset, idx)}} : TRUE

\* write, after the allocation loop; s.ret is curr_inode
WriteData(s, data, offset) ==
    IF s.err # "ok" THEN s
    ELSE WriteBlocks(s, s.ret, data, offset, offset \div BlockSize, (offset + Len(data) - 1) \div BlockSize)

\* write, the transaction scope; s.ret is curr_inode
WriteCommit(s, fh, data, offset) ==
    IF s.err # "ok" THEN s
    ELSE CHOOSE r \in {
            Return(Commit(s1, BlockBitmapFlush(s1,
                              InodeTableWrite(s1, s1.ret, fh, [s.ret EXCEPT !.size = Max(@, offset + Len(data))]))),
                   Len(data))
          : s1 \in {Begin(s)}} : TRUE

\* WayneFS.write; a file handle is the inode it is open on
Write(s, fh, data, offset) ==
    IF fh \notin s.oft THEN Raise(s, "EBADF")
    ELSE IF Len(data) = 0 THEN Return(s, 0)
    ELSE IF (offset + Len(data) - 1) \div BlockSize >= MAX_BLOCKS THEN Raise(s, "EFBIG")
    ELSE CHOOSE r \in {WriteCommit(s2, fh, data, offset) :
            s2 \in {WriteData(s1, data, offset) :
            s1 \in {AllocBlocks(Return(s, IGet(s, fh)), offset \div BlockSize, (offset + Len(data) - 1) \div BlockSize)}}} : TRUE

RECURSIVE ExtendBlocks(_, _, _)
\* truncate, "for i in range(original_blks, need_blks): addr =
\* _get_or_alloc_data_block_addr(inode, i); write zeros"; s.ret is inode
ExtendBlocks(s, i, need_blks) ==
    IF s.err # "ok" \/ i >= need_blks THEN s
    ELSE CHOOSE r \in {ExtendBlocks(s2, i + 1, need_blks) :
            s2 \in {IF s1.err # "ok" THEN s1 ELSE Return(WriteBlockCached(s1, s1.ret.addr, ZeroBlock), s1.ret.inode) :
            s1 \in {GetOrAllocDataBlockAddr(s, s.ret, i)}}} : TRUE

\* truncate, "if need_blks < DOUBLY_LIMIT and inode.direct[11] != 0"
ShrinkDouble(s, need_blks) ==
    IF s.err # "ok" THEN s
    ELSE IF need_blks < DOUBLY_LIMIT /\ s.ret.direct[11] # 0 THEN
        CHOOSE r \in {IF s1.err # "ok" THEN s1 ELSE Return(s1, [s.ret EXCEPT !.direct[11] = 0]) :
            s1 \in {FreeDoubleIndirect(s, s.ret.direct[11])}} : TRUE
    ELSE s

\* truncate, "if need_blks < SINGLY_LIMIT and inode.direct[10] != 0"
ShrinkSingle(s, need_blks) ==
    IF s.err # "ok" THEN s
    ELSE IF need_blks < SINGLY_LIMIT /\ s.ret.direct[10] # 0 THEN
        CHOOSE r \in {IF s1.err # "ok" THEN s1 ELSE Return(s1, [s.ret EXCEPT !.direct[10] = 0]) :
            s1 \in {FreeBlock(s, s.ret.direct[10])}} : TRUE
    ELSE s

\* truncate, the else branch (length <= inode.size); s.ret is inode
ShrinkBlocks(s, need_blks, original_blks) ==
    CHOOSE r \in {ShrinkSingle(s2, need_blks) :
        s2 \in {ShrinkDouble(s1, need_blks) :
        s1 \in {FreeDataBlocks(s, need_blks, original_blks - 1)}}} : TRUE

\* truncate, the transaction scope; s.ret is inode
TruncateCommit(s, ino, length) ==
    IF s.err # "ok" THEN s
    ELSE CHOOSE r \in {
            Commit(s1, BlockBitmapFlush(s1, InodeTableWrite(s1, s1.ret, ino, [s.ret EXCEPT !.size = length])))
          : s1 \in {Begin(s)}} : TRUE

\* truncate, after the lookup; s.ret is ino
TruncateInode(s, length) ==
    IF s.err # "ok" THEN s
    ELSE IF ceil_div(length, BlockSize) > MAX_BLOCKS THEN Raise(s, "EFBIG")
    ELSE CHOOSE r \in {TruncateCommit(s1, s.ret, length) :
            s1 \in {IF length > IGet(s, s.ret).size
                    THEN ExtendBlocks(Return(s, IGet(s, s.ret)), ceil_div(IGet(s, s.ret).size, BlockSize), ceil_div(length, BlockSize))
                    ELSE ShrinkBlocks(Return(s, IGet(s, s.ret)), ceil_div(length, BlockSize), ceil_div(IGet(s, s.ret).size, BlockSize))}} : TRUE

\* WayneFS.truncate
Truncate(s, path, length) ==
    CHOOSE r \in {TruncateInode(s1, length) : s1 \in {Lookup(s, path)}} : TRUE

\* list.remove(entry): the first occurrence taken out
RemoveFirst(entries, entry) ==
    LET at == CHOOSE i \in 1 .. Len(entries) : entries[i] = entry /\ \A j \in 1 .. (i - 1) : entries[j] # entry
    IN SubSeq(entries, 1, at - 1) \o SubSeq(entries, at + 1, Len(entries))

\* rename, the transaction scope; s.ret is the new parent's inode
RenameCommit(s, old, old_parent_ino, old_parent_inode, new_parent_ino, curr_ino, curr_inode) ==
    IF s.err # "ok" THEN s
    ELSE CHOOSE r \in {
            [Commit(s1, InodeTableWrite(s1,
                        InodeTableWrite(s1,
                        InodeTableWrite(s1, s1.ret, old_parent_ino, old_parent_inode),
                        new_parent_ino, s.ret),
                        curr_ino, curr_inode))
             EXCEPT !.dc = DcRemove(@, old)]
          : s1 \in {Begin(s)}} : TRUE

\* rename, "write old and new parent d-entry", the new parent's; s.ret is
\* the old parent's inode
RenameNew(s, old, old_parent_ino, new_parent_ino, new_parent_inode, curr_ino, curr_inode, new_parent_dentry) ==
    IF s.err # "ok" THEN s
    ELSE CHOOSE r \in {RenameCommit(s1, old, old_parent_ino, s.ret, new_parent_ino, curr_ino, curr_inode) :
            s1 \in {WriteDirEntries(s, new_parent_inode, new_parent_dentry)}} : TRUE

\* rename, "write old and new parent d-entry", the old parent's
RenameEntries(s, old, old_parent_ino, old_parent_inode, new_parent_ino, new_parent_inode, curr_ino, curr_inode, old_parent_dentry, new_parent_dentry) ==
    IF s.err # "ok" THEN s
    ELSE CHOOSE r \in {RenameNew(s1, old, old_parent_ino, new_parent_ino, new_parent_inode, curr_ino, curr_inode, new_parent_dentry) :
            s1 \in {WriteDirEntries(s, old_parent_inode, old_parent_dentry)}} : TRUE

\* rename, a directory moved to another parent: its ".." replaced;
\* s.ret is curr_inode_dentry
RenameDotDot(s, old, old_parent_ino, old_parent_inode, new_parent_ino, curr_ino, old_parent_dentry, new_parent_dentry) ==
    IF \A i \in 1 .. Len(s.ret) : s.ret[i] # <<old_parent_ino, DotDot>> THEN Raise(s, "ValueError")
    ELSE CHOOSE r \in {
            RenameEntries(s1, old, old_parent_ino, [old_parent_inode EXCEPT !.nlink = @ - 1],
                          new_parent_ino, [IGet(s, new_parent_ino) EXCEPT !.nlink = @ + 1],
                          curr_ino, s1.ret, old_parent_dentry, new_parent_dentry)
          : s1 \in {WriteDirEntries(s, IGet(s, curr_ino),
                                    Append(RemoveFirst(s.ret, <<old_parent_ino, DotDot>>), <<new_parent_ino, DotDot>>))}} : TRUE

\* rename, after the new parent's entries are read; s.ret is
\* new_parent_dentry before the append
RenameDir(s, old, new, old_parent_ino, old_parent_inode, new_parent_ino, curr_ino, old_parent_dentry) ==
    IF FileType(IGet(s, curr_ino).mode) = S_IFDIR /\ old_parent_ino # new_parent_ino THEN
        CHOOSE r \in {RenameDotDot(s1, old, old_parent_ino, old_parent_inode, new_parent_ino, curr_ino, old_parent_dentry,
                                   Append(s.ret, <<curr_ino, SplitName(new)>>)) :
            s1 \in {ReadDirEntries(s, IGet(s, curr_ino))}} : TRUE
    ELSE RenameEntries(s, old, old_parent_ino, old_parent_inode, new_parent_ino, IGet(s, new_parent_ino),
                       curr_ino, IGet(s, curr_ino), old_parent_dentry, Append(s.ret, <<curr_ino, SplitName(new)>>))

\* rename, after the old name is written out of the old parent; s.ret is
\* the old parent's inode
RenameTarget(s, old, new, old_parent_ino, new_parent_ino, curr_ino, old_parent_dentry) ==
    IF s.err # "ok" THEN s
    ELSE CHOOSE r \in {RenameDir(s1, old, new, old_parent_ino, s.ret, new_parent_ino, curr_ino, old_parent_dentry) :
            s1 \in {ReadDirEntries(s, IGet(s, new_parent_ino))}} : TRUE

\* rename, the source looked for in the old parent; s.ret is
\* old_parent_dentry
RenameSource(s, old, new, old_parent_ino, new_parent_ino) ==
    IF FindName(s.ret, SplitName(old)) = -1 THEN Raise(s, "ENOENT")
    ELSE CHOOSE r \in {RenameTarget(s1, old, new, old_parent_ino, new_parent_ino,
                                   FindName(s.ret, SplitName(old)), WithoutName(s.ret, SplitName(old))) :
            s1 \in {WriteDirEntries(s, IGet(s, old_parent_ino), WithoutName(s.ret, SplitName(old)))}} : TRUE

\* rename, after both parents are looked up; s.ret is new_parent_ino
RenameParents(s, old, new, old_parent_ino) ==
    IF s.err # "ok" THEN s
    ELSE IF FileType(IGet(s, old_parent_ino).mode) # S_IFDIR THEN Raise(s, "ENOENT")
    ELSE IF FileType(IGet(s, s.ret).mode) # S_IFDIR THEN Raise(s, "ENOENT")
    ELSE CHOOSE r \in {RenameSource(s1, old, new, old_parent_ino, s.ret) :
            s1 \in {ReadDirEntries(s, IGet(s, old_parent_ino))}} : TRUE

\* rename, after the lookup of the old parent; s.ret is old_parent_ino
RenameTo(s, old, new) ==
    IF s.err # "ok" THEN s
    ELSE CHOOSE r \in {RenameParents(s1, old, new, s.ret) : s1 \in {Lookup(s, SplitParent(new))}} : TRUE

\* rename, after the try block
RenameFrom(s, old, new) ==
    IF s.err # "ok" THEN s
    ELSE CHOOSE r \in {RenameTo(s1, old, new) : s1 \in {Lookup(s, SplitParent(old))}} : TRUE

\* rename, inside the try block after the lookup of new; s.ret is ino
RenameRemove(s, new) ==
    IF s.err # "ok" THEN s
    ELSE CHOOSE r \in {IF s1.err # "ok" THEN s1 ELSE [s1 EXCEPT !.dc = DcRemove(@, new)] :
            s1 \in {IF FileType(IGet(s, s.ret).mode) = S_IFDIR THEN Rmdir(s, new) ELSE Unlink(s, new)}} : TRUE

\* rename, "try: ... except OSError: pass"
RenameReplace(s, new) ==
    CHOOSE r \in {IF IsOSError(s2.err) THEN [s2 EXCEPT !.err = "ok"] ELSE s2 :
        s2 \in {RenameRemove(s1, new) : s1 \in {Lookup(s, new)}}} : TRUE

\* WayneFS.rename
Rename(s, old, new) ==
    IF old = new THEN s
    ELSE CHOOSE r \in {RenameFrom(s1, old, new) : s1 \in {RenameReplace(s, new)}} : TRUE

(***************************************************************************)
(* Journal.recover.                                                        *)
(***************************************************************************)
\* the first final address and the log slot after the descriptor at
\* curr_block_no, written through: what a recovery that did not wait for
\* the commit record would do
ReplayDescriptor(s, curr_block_no, replay) ==
    Return(DiskWrite(s, s.disk[curr_block_no].addrs[1], s.disk[get_next_log_block(s.jsb, curr_block_no)], "replay"),
           [curr_block_no |-> get_next_log_block(s.jsb, curr_block_no), replay |-> replay])

\* head moved one slot on instead of onto the tail
FinishAdvance(s) ==
    CHOOSE r \in {DiskWrite([s EXCEPT !.jsb = jsb], JournalAreaStart, JsbBlock(jsb), "recover") :
        jsb \in {[s.jsb EXCEPT !.head = get_next_log_block(s.jsb, s.jsb.head)]}} : TRUE

\* recover, the descriptor branch: DescriptorBlock.unpack hands range() the
\* tuple struct.unpack returned, which raises TypeError
ScanDescriptor(s, curr_block_no, replay) ==
    Raise(s, "TypeError")

\* recover, the commit branch: the stored (final_addr, data) pair is
\* iterated as if it were a list of pairs, which raises TypeError
ScanCommit(s, curr_block_no, replay) ==
    IF s.disk[curr_block_no].tid \in replay THEN Raise(s, "TypeError")
    ELSE Return(s, [curr_block_no |-> curr_block_no, replay |-> replay])

\* recover, "Cleaning journal by setting head = tail"
RecoverFinish(s) ==
    CHOOSE r \in {DiskWrite([s EXCEPT !.jsb = jsb], JournalAreaStart, JsbBlock(jsb), "recover") :
        jsb \in {[s.jsb EXCEPT !.head = s.jsb.tail]}} : TRUE

RECURSIVE RecoverScan(_, _, _, _)
\* recover, the scan from curr_block_no to the tail; replay is the set of
\* tids in transactions_to_replay, fuel the iterations left
RecoverScan(s, curr_block_no, replay, fuel) ==
    IF curr_block_no = s.jsb.tail THEN s
    ELSE IF fuel = 0 THEN Raise(s, "NoReturn")
    ELSE IF s.disk[curr_block_no].k \notin {"desc", "commit"} THEN s
    ELSE CHOOSE r \in {
            IF s1.err # "ok" THEN s1
            ELSE RecoverScan(s1, get_next_log_block(s1.jsb, s1.ret.curr_block_no), s1.ret.replay, fuel - 1)
          : s1 \in {IF s.disk[curr_block_no].k = "desc" THEN ScanDescriptor(s, curr_block_no, replay)
                    ELSE ScanCommit(s, curr_block_no, replay)}} : TRUE

\* Journal.recover
Recover(s) ==
    IF s.jsb.head = s.jsb.tail THEN s
    ELSE CHOOSE r \in {IF s1.err # "ok" THEN s1 ELSE RecoverFinish(s1) :
            s1 \in {RecoverScan(s, s.jsb.head, {}, LogBlocks)}} : TRUE

(***************************************************************************)
(* The state machine.  A process is mounted on the image or not; the       *)
(* memory of a killed process is gone, the image keeps every write issued. *)
(***************************************************************************)
VARIABLES
    disk,           \* the image: block address -> block
    page_cache,     \* WayneFS.page_cache
    inode_bitmap,   \* the bits set in WayneFS.inode_bitmap
    block_bitmap,   \* the bits set in WayneFS.block_bitmap
    journal_sb,     \* Journal.journal_sb
    next_tid,       \* Journal.next_tid
    dentry_cache,   \* WayneFS.dentry_cache
    open_files,     \* the inodes in WayneFS.open_file_table
    mounted,        \* a WayneFS object exists
    nops,           \* operations called so far
    ncrash,         \* kills so far
    last            \* the last step: its operation, outcome and device writes

vars == <<disk, page_cache, inode_bitmap, block_bitmap, journal_sb, next_tid, dentry_cache, open_files, mounted, nops, ncrash, last>>

MaxCrashes == 1

\* the names and paths the operations are called with
PathA == Path(TRUE, <<NameA>>)

PathB == Path(TRUE, <<NameB>>)

Paths == {PathA, PathB}

\* the file handles, data, offsets and lengths write and truncate are called with
Handles == {1}

WritePayloads == {<<14>>}

WriteOffsets == {0, SINGLY_LIMIT * BlockSize, DOUBLY_LIMIT * BlockSize}

TruncateLengths == {0, BlockSize}

(***************************************************************************)
(* mkwaynefs.make_image: the freshly formatted image.                      *)
(***************************************************************************)
\* the packed superblock: "WAYNE_FS" and the layout fields
SuperBlockBytes ==
    <<87, 65, 89, 78, 69, 95, 70, 83>> \o U32(BlockSize) \o U32(TotalBlocks) \o U32(InodeCount)
    \o U32(InodeBitmapStart) \o U32(1) \o U32(BlockBitmapStart) \o U32(1) \o U32(InodeTableStart)

RootDirBytes == pack_dir(<<<<0, Dot>>, <<0, DotDot>>>>)

RootInode == [InodeEmpty(S_IFDIR) EXCEPT !.nlink = 2, !.size = Len(RootDirBytes), !.direct[0] = DataStart]

MakeImage ==
    [a \in Blocks |->
        IF a = 0 THEN Raw(SubSeq(SuperBlockBytes, 1, BlockSize))
        ELSE IF a = InodeBitmapStart THEN BitmapBlock({ROOT_INO})
        ELSE IF a = BlockBitmapStart THEN BitmapBlock(0 .. DataStart)
        ELSE IF a = InodeTableStart THEN InodeTableBlock([i \in 0 .. (InodeCount - 1) |-> IF i = ROOT_INO THEN RootInode ELSE FreeInode])
        ELSE IF a = JournalAreaStart THEN JournalSuperblock(LogStart, LogStart, 0)
        ELSE IF a = DataStart THEN Raw(Ljust(RootDirBytes, BlockSize))
        ELSE ZeroBlock]

EmptyCache == [a \in Blocks |-> NoPage]

NoCrash == [op |-> "none", err |-> "ok", step |-> 0, k |-> 0, pre |-> <<>>, post |-> <<>>]

NoArgs == [path |-> Path(TRUE, <<>>)]

NoRecovery == [head |-> 0, tail |-> 0, run |-> 0]

Last(op, args, err, wlog) == [op |-> op, args |-> args, err |-> err, wlog |-> wlog, crash |-> NoCrash, rec |-> NoRecovery]

\* Journal.__init__: the journal superblock read from the image, or a new one
MountJsb(d) ==
    IF d[JournalAreaStart].k = "jsb" THEN d[JournalAreaStart] ELSE JournalSuperblock(LogStart, LogStart, 0)

\* WayneFS.__init__ on image d: the memory of the new process
Mounted(d) ==
    [disk |-> [d EXCEPT ![JournalAreaStart] = MountJsb(d)], cache |-> EmptyCache,
     ibm |-> d[InodeBitmapStart].bits, bbm |-> d[BlockBitmapStart].bits,
     jsb |-> MountJsb(d), tid |-> MountJsb(d).last_tid + 1,
     dc |-> {}, oft |-> {}, wlog |-> <<>>, err |-> "ok", ret |-> 0]

\* the process in state r, between operations
Process(r) ==
    /\ disk = r.disk
    /\ page_cache = r.cache
    /\ inode_bitmap = r.ibm
    /\ block_bitmap = r.bbm
    /\ journal_sb = r.jsb
    /\ next_tid = r.tid
    /\ dentry_cache = r.dc
    /\ open_files = r.oft

\* a process mounted on the fresh image, on one where a directory was made
\* and removed, or on one with a file written at the first double-indirect
\* offset
Init ==
    /\ \E r0 \in {Mounted(MakeImage)} :
        \E r1 \in {Mkdir(r0, PathA)}, r2 \in {Create(r0, PathA)} :
        \E r3 \in {Write(r2, r2.ret, <<14>>, DOUBLY_LIMIT * BlockSize)} :
        \E r \in {r0, Rmdir(r1, PathA), r3} : Process(r)
    /\ mounted = TRUE
    /\ nops = 0
    /\ ncrash = 0
    /\ last = Last("mount", NoArgs, "ok", <<>>)

\* the state an operation is called in
Cur ==
    [disk |-> disk, cache |-> page_cache, ibm |-> inode_bitmap, bbm |-> block_bitmap, jsb |-> journal_sb,
     tid |-> next_tid, dc |-> dentry_cache, oft |-> open_files, wlog |-> <<>>, err |-> "ok", ret |-> 0]

\* the operation returned (or raised) in state r
Finish(r, op, args) ==
    /\ mounted /\ nops < MaxOps
    /\ r.err \notin NotFollowed
    /\ disk' = r.disk
    /\ page_cache' = r.cache
    /\ inode_bitmap' = r.ibm
    /\ block_bitmap' = r.bbm
    /\ journal_sb' = r.jsb
    /\ next_tid' = r.tid
    /\ dentry_cache' = r.dc
    /\ open_files' = r.oft
    /\ nops' = nops + 1
    /\ last' = Last(op, args, r.err, r.wlog)
    /\ UNCHANGED <<mounted, ncrash>>

RECURSIVE ApplyWrites(_, _, _)
\* image d after the first k writes of wlog
ApplyWrites(d, wlog, k) ==
    IF k = 0 THEN d ELSE [ApplyWrites(d, wlog, k - 1) EXCEPT ![wlog[k].a] = wlog[k].d]

\* the step of the commit whose descriptor is write d of wlog that a kill
\* after k writes follows (1 ordered-data flush, 2 descriptor, 3 data
\* blocks, 4 commit block, 5 journal superblock with the new tail,
\* 6 checkpoint), or 0
StepAfter(wlog, d, k) ==
    LET n == wlog[d].d.addrs
    IN CASE k = d - 1 -> 1
         [] k = d -> 2
         [] k = d + Len(n) -> 3
         [] k = d + Len(n) + 1 -> 4
         [] k = d + Len(n) + 2 -> 5
         [] k = d + (2 * Len(n)) + 2 -> 6
         [] OTHER -> 0

CrashStep(wlog, k) ==
    LET steps == {StepAfter(wlog, d, k) : d \in {i \in 1 .. Len(wlog) : wlog[i].st = "desc"}}
    IN IF steps = {} THEN 0 ELSE CHOOSE m \in steps : \A j \in steps : j <= m

\* the process is killed after the first k device writes of the operation;
\* crash keeps the operation, the outcome it was heading for, the commit
\* step the kill follows and the image before and after the whole operation
Killed(r, k, op, args) ==
    /\ mounted /\ nops < MaxOps /\ ncrash < MaxCrashes
    /\ r.err \notin NotFollowed
    /\ k \in 0 .. (Len(r.wlog) - 1)
    /\ disk' = ApplyWrites(disk, r.wlog, k)
    /\ page_cache' = EmptyCache
    /\ inode_bitmap' = {}
    /\ block_bitmap' = {}
    /\ journal_sb' = JournalSuperblock(LogStart, LogStart, 0)
    /\ next_tid' = 0
    /\ dentry_cache' = {}
    /\ open_files' = {}
    /\ mounted' = FALSE
    /\ nops' = nops + 1
    /\ ncrash' = ncrash + 1
    /\ last' = [op |-> op, args |-> args, err |-> "killed", wlog |-> SubSeq(r.wlog, 1, k),
                crash |-> [op |-> op, err |-> r.err, step |-> CrashStep(r.wlog, k), k |-> k, pre |-> disk, post |-> r.disk],
                rec |-> NoRecovery]

\* WayneFS.__init__: Superblock.load, the bitmaps, Journal.__init__, empty caches
Mount ==
    /\ ~mounted
    /\ SubSeq(disk[0].b, 1, 8) = SubSeq(SuperBlockBytes, 1, 8)
    /\ mounted' = TRUE
    /\ \E r \in {Mounted(disk)} :
        /\ disk' = r.disk
        /\ page_cache' = r.cache
        /\ inode_bitmap' = r.ibm
        /\ block_bitmap' = r.bbm
        /\ journal_sb' = r.jsb
        /\ next_tid' = r.tid
        /\ dentry_cache' = r.dc
        /\ open_files' = r.oft
    /\ last' = [last EXCEPT !.op = "mount", !.err = "ok", !.wlog = <<>>]
    /\ UNCHANGED <<nops, ncrash>>

\* recover returned (or raised) in state r
Recovered(r, rec) ==
    /\ disk' = r.disk
    /\ journal_sb' = r.jsb
    /\ last' = [last EXCEPT !.op = "recover", !.err = r.err, !.wlog = r.wlog, !.rec = rec]
    /\ UNCHANGED <<page_cache, inode_bitmap, block_bitmap, next_tid, dentry_cache, open_files, mounted, nops, ncrash>>

\* a call of Journal.recover on the mounted image
DoRecover ==
    /\ mounted
    /\ last.op \in {"mount", "image"}
    /\ \E s \in {Cur} : \E r \in {Recover(s)} :
        Recovered(r, [head |-> journal_sb.head, tail |-> journal_sb.tail, run |-> 1])

\* a second call of Journal.recover, right after the first
DoRecoverAgain ==
    /\ mounted
    /\ last.op = "recover" /\ last.rec.run = 1
    /\ \E s \in {Cur} : \E r \in {Recover(s)} : Recovered(r, [last.rec EXCEPT !.run = 2])

DoCreate ==
    \E p \in Paths, s \in {Cur} : \E r \in {Create(s, p)} : Finish(r, "create", [path |-> p])

KillCreate ==
    \E p \in Paths, s \in {Cur} : \E r \in {Create(s, p)} : \E k \in 0 .. (Len(r.wlog) - 1) : Killed(r, k, "create", [path |-> p])

DoMkdir ==
    \E p \in Paths, s \in {Cur} : \E r \in {Mkdir(s, p)} : Finish(r, "mkdir", [path |-> p])

KillMkdir ==
    \E p \in Paths, s \in {Cur} : \E r \in {Mkdir(s, p)} : \E k \in 0 .. (Len(r.wlog) - 1) : Killed(r, k, "mkdir", [path |-> p])

DoRmdir ==
    \E p \in Paths, s \in {Cur} : \E r \in {Rmdir(s, p)} : Finish(r, "rmdir", [path |-> p])

KillRmdir ==
    \E p \in Paths, s \in {Cur} : \E r \in {Rmdir(s, p)} : \E k \in 0 .. (Len(r.wlog) - 1) : Killed(r, k, "rmdir", [path |-> p])

DoUnlink ==
    \E p \in Paths, s \in {Cur} : \E r \in {Unlink(s, p)} : Finish(r, "unlink", [path |-> p])

KillUnlink ==
    \E p \in Paths, s \in {Cur} : \E r \in {Unlink(s, p)} : \E k \in 0 .. (Len(r.wlog) - 1) : Killed(r, k, "unlink", [path |-> p])

DoWrite ==
    \E fh \in Handles, data \in WritePayloads, offset \in WriteOffsets, s \in {Cur} :
        \E r \in {Write(s, fh, data, offset)} : Finish(r, "write", [fh |-> fh, data |-> data, offset |-> offset])

KillWrite ==
    \E fh \in Handles, data \in WritePayloads, offset \in WriteOffsets, s \in {Cur} :
        \E r \in {Write(s, fh, data, offset)} : \E k \in 0 .. (Len(r.wlog) - 1) :
            Killed(r, k, "write", [fh |-> fh, data |-> data, offset |-> offset])

DoTruncate ==
    \E p \in Paths, length \in TruncateLengths, s \in {Cur} :
        \E r \in {Truncate(s, p, length)} : Finish(r, "truncate", [path |-> p, length |-> length])

KillTruncate ==
    \E p \in Paths, length \in TruncateLengths, s \in {Cur} :
        \E r \in {Truncate(s, p, length)} : \E k \in 0 .. (Len(r.wlog) - 1) :
            Killed(r, k, "truncate", [path |-> p, length |-> length])

DoRename ==
    \E old \in Paths, new \in Paths, s \in {Cur} :
        \E r \in {Rename(s, old, new)} : Finish(r, "rename", [old |-> old, new |-> new])

KillRename ==
    \E old \in Paths, new \in Paths, s \in {Cur} :
        \E r \in {Rename(s, old, new)} : \E k \in 0 .. (Len(r.wlog) - 1) :
            Killed(r, k, "rename", [old |-> old, new |-> new])

Next ==
    \/ DoCreate
    \/ KillCreate
    \/ DoMkdir
    \/ KillMkdir
    \/ DoRmdir
    \/ KillRmdir
    \/ DoUnlink
    \/ KillUnlink
    \/ DoWrite
    \/ KillWrite
    \/ DoTruncate
    \/ KillTruncate
    \/ DoRename
    \/ KillRename
    \/ Mount
    \/ DoRecover

Spec == Init /\ [][Next]_vars

(***************************************************************************)
(* Recovery on log images.  The log is a ring that earlier transactions    *)
(* have written; an image has any of the blocks below in its first         *)
(* MaxLogged slots, the head on the first slot and the tail on it or on    *)
(* one of the MaxLogged slots after it.  recover is called on the mounted  *)
(* image, once or twice.                                                   *)
(***************************************************************************)
MaxLogged == 3

DataSample == Raw(Ljust(<<14>>, BlockSize))

SlotBlocks == {ZeroBlock, DataSample, DescriptorBlock(2, <<DataStart + 1>>), CommitBlock(2), CommitBlock(3)}

\* the formatted image with the blocks of logged in the first slots of the
\* log and the tail of the journal superblock on slot tail
LogImage(logged, tail) ==
    [a \in Blocks |->
        IF a \in LogStart .. (LogStart + MaxLogged - 1) THEN logged[(a - LogStart) + 1]
        ELSE IF a = JournalAreaStart THEN JournalSuperblock(LogStart, tail, 1)
        ELSE MakeImage[a]]

InitRec ==
    /\ \E logged \in [1 .. MaxLogged -> SlotBlocks], tail \in LogStart .. (LogStart + MaxLogged) :
        \E r \in {Mounted(LogImage(logged, tail))} : Process(r)
    /\ mounted = TRUE
    /\ nops = 0
    /\ ncrash = 0
    /\ last = Last("image", NoArgs, "ok", <<>>)

NextRec ==
    \/ DoRecover
    \/ DoRecoverAgain

SpecRec == InitRec /\ [][NextRec]_vars

(***************************************************************************)
(* The log between head and tail.                                          *)
(***************************************************************************)
\* the slot i slots after slot c of the ring
Slot(jsb, c, i) == jsb.start_block + (((c - jsb.start_block) + i) % jsb.num_blocks)

\* how many slots after the head slot c is
FromHead(jsb, c) == ((c - jsb.head) + jsb.num_blocks) % jsb.num_blocks

\* the slots from the head up to the tail
Between(jsb) ==
    {c \in jsb.start_block .. (jsb.start_block + jsb.num_blocks - 1) : FromHead(jsb, c) < FromHead(jsb, jsb.tail)}

\* slot c holds a descriptor whose data blocks and commit record, with the
\* same tid, follow it before the tail
CompleteAt(d, jsb, c) ==
    /\ c \in Between(jsb)
    /\ d[c].k = "desc"
    /\ FromHead(jsb, c) + Len(d[c].addrs) + 1 < FromHead(jsb, jsb.tail)
    /\ d[Slot(jsb, c, Len(d[c].addrs) + 1)].k = "commit"
    /\ d[Slot(jsb, c, Len(d[c].addrs) + 1)].tid = d[c].tid

\* slot c holds a descriptor whose tid no commit record between head and
\* tail carries
UncommittedAt(d, jsb, c) ==
    /\ c \in Between(jsb)
    /\ d[c].k = "desc"
    /\ \A c2 \in Between(jsb) : ~(d[c2].k = "commit" /\ d[c2].tid = d[c].tid)

\* the journal superblock the last first call of recover started from
RecoveredFrom == [journal_sb EXCEPT !.head = last.rec.head, !.tail = last.rec.tail]

\* the blocks outside the journal area
OutsideJournal == Blocks \ (JournalAreaStart .. (JournalAreaStart + JournalAreaBlocks - 1))

(***************************************************************************)
(* The filesystem on an image.                                             *)
(***************************************************************************)
Inodes == 0 .. (InodeCount - 1)

InodeAt(d, i) == d[InodeTableStart].inodes[i]

\* the non-zero entries of the index block at a
IndexEntries(d, a) ==
    IF a \in DataBlocks THEN {GetU32(d[a].b, 4 * j) : j \in 0 .. (AddrsPerBlock - 1)} \ {0} ELSE {}

\* the pointers reachable from an inode: direct[0..9], the single-indirect
\* block and its entries, the double-indirect block, its entries and theirs
BlockPointers(d, ino) ==
    ({ino.direct[j] : j \in 0 .. 11} \ {0})
        \cup IndexEntries(d, ino.direct[10])
        \cup IndexEntries(d, ino.direct[11])
        \cup UNION {IndexEntries(d, a) : a \in IndexEntries(d, ino.direct[11])}

\* the index blocks of an inode
IndexBlocks(d, ino) == ({ino.direct[10], ino.direct[11]} \ {0}) \cup IndexEntries(d, ino.direct[11])

IsIndexBlock(d, a) ==
    \E i \in Inodes : InodeAt(d, i).mode # 0 /\ FileType(InodeAt(d, i).mode) = S_IFREG /\ a \in IndexBlocks(d, InodeAt(d, i))

IsDirBlock(d, a) ==
    \E i \in Inodes : FileType(InodeAt(d, i).mode) = S_IFDIR /\ InodeAt(d, i).direct[0] = a

\* the filesystem state of image d: the bitmaps, the inode records, the
\* directory blocks and the index blocks
Meta(d) ==
    [ibm |-> d[InodeBitmapStart], bbm |-> d[BlockBitmapStart], itable |-> d[InodeTableStart],
     blocks |-> [a \in DataBlocks |-> IF IsDirBlock(d, a) \/ IsIndexBlock(d, a) THEN d[a] ELSE ZeroBlock]]

\* the inode _lookup finds for path on a fresh mount of image d, or -1
Visible(d, path) ==
    CHOOSE v \in {IF r.err = "ok" THEN r.ret ELSE -1 : r \in {Lookup(Mounted(d), path)}} : TRUE

\* the inodes and blocks marked used on image d
UsedInodes(d) == d[InodeBitmapStart].bits

UsedBlocks(d) == d[BlockBitmapStart].bits

\* the allocated directory and regular-file inodes of image d
AllocatedInodes(d) ==
    {i \in Inodes : i \in UsedInodes(d) /\ FileType(InodeAt(d, i).mode) \in {S_IFDIR, S_IFREG}}

\* the entries of the directory block of inode j
DirEntriesOf(d, j) ==
    IF InodeAt(d, j).direct[0] \in DataBlocks THEN unpack_dir(d[InodeAt(d, j).direct[0]].b) ELSE <<>>

\* some allocated directory other than i itself has an entry for inode i
Referenced(d, i) ==
    \E j \in AllocatedInodes(d) \ {i} :
        /\ FileType(InodeAt(d, j).mode) = S_IFDIR
        /\ \E e \in 1 .. Len(DirEntriesOf(d, j)) : DirEntriesOf(d, j)[e][1] = i

\* the operations of the filesystem
FsOps == {"create", "mkdir", "rmdir", "unlink", "write", "truncate", "rename"}

(***************************************************************************)
(* The properties.                                                         *)
(***************************************************************************)
\* C1: crash consistency.  When the process was killed after step k (1..6)
\* of an operation's journal commit, and the image was mounted again and
\* recover was run, the filesystem state on the image (bitmaps, inode
\* records, directory blocks, index blocks) is the complete state before
\* the operation or the complete state after it.
C1_CrashConsistency ==
    (last.op = "recover" /\ last.crash.step \in 1 .. 6)
        => Meta(disk) \in {Meta(last.crash.pre), Meta(last.crash.post)}

\* C2: recovery replays committed transactions.  After recover on a log
\* that holds, between head and tail, a descriptor, its data blocks and the
\* commit record with its tid, every data block i is at final address
\* addrs[i].
C2_ReplaysCommitted ==
    (last.op = "recover" /\ last.rec.run = 1) =>
        \A c \in Between(RecoveredFrom) :
            CompleteAt(disk, RecoveredFrom, c) =>
                \A i \in 1 .. Len(disk[c].addrs) : disk[disk[c].addrs[i]] = disk[Slot(RecoveredFrom, c, i)]

\* C3: recovery never replays an uncommitted transaction.  A call of
\* recover on a log with a descriptor whose tid no commit record between
\* head and tail carries leaves every block outside the journal area as it
\* was.
C3_NeverReplaysUncommitted ==
    [][(last'.op = "recover" /\ \E c \in Between(journal_sb) : UncommittedAt(disk, journal_sb, c))
        => \A a \in OutsideJournal : disk'[a] = disk[a]]_vars

\* recover has run on a log with an uncommitted descriptor between head and
\* tail
C3_Witness ==
    /\ last.op = "recover"
    /\ last.rec.run = 1
    /\ \E c \in Between(RecoveredFrom) : UncommittedAt(disk, RecoveredFrom, c)

\* C4: recovery is idempotent.  The second of two calls of recover in
\* succession changes neither the device nor the journal superblock.
C4_Idempotent ==
    [][(last.op = "recover" /\ last'.op = "recover") => (disk' = disk /\ journal_sb' = journal_sb)]_vars

\* recover has run twice on a log whose head was not on the tail, and
\* returned
C4_Witness ==
    /\ last.op = "recover"
    /\ last.rec.run = 2
    /\ last.rec.head # last.rec.tail
    /\ last.err = "ok"

\* C5: recovery runs at mount.  An operation that starts right after a
\* mount starts on a journal whose head is on the tail.
C5_RecoveryAtMount ==
    [][(last.op = "mount" /\ last'.op \in FsOps) => journal_sb.head = journal_sb.tail]_vars

\* C6: rename atomicity.  When the process was killed during
\* rename(old, new), old naming an inode and new being another path, then
\* after the mount that inode is found under exactly one of old and new.
C6_RenameAtomic ==
    (/\ last.op = "mount"
     /\ last.crash.op = "rename"
     /\ last.args.old # last.args.new
     /\ Visible(last.crash.pre, last.args.old) # -1)
        => ((Visible(disk, last.args.old) = Visible(last.crash.pre, last.args.old))
            # (Visible(disk, last.args.new) = Visible(last.crash.pre, last.args.old)))

\* C7: inode records and inode bitmap agree.  After any sequence of
\* operations, inode record i on the image has a mode other than 0 exactly
\* when bit i of the inode bitmap is 1.
C7_InodeBitmapAgrees ==
    (mounted /\ ncrash = 0) =>
        \A i \in Inodes : (InodeAt(disk, i).mode # 0) <=> (i \in UsedInodes(disk))

\* C8: reachable blocks are marked used.  After any sequence of operations,
\* every non-zero pointer reachable from an allocated directory or
\* regular-file inode names a block whose block-bitmap bit is 1.
C8_ReachableMarkedUsed ==
    (mounted /\ ncrash = 0) =>
        \A i \in AllocatedInodes(disk) : BlockPointers(disk, InodeAt(disk, i)) \subseteq UsedBlocks(disk)

\* C9: no leaked allocations.  After any sequence of operations, failed
\* ones included, every inode marked used (the root apart) has a directory
\* entry, and every block at or above data_start that is marked used is
\* reachable from an allocated inode.
C9_NoLeaks ==
    (mounted /\ ncrash = 0) =>
        /\ \A i \in (UsedInodes(disk) \cap Inodes) \ {ROOT_INO} : Referenced(disk, i)
        /\ \A a \in UsedBlocks(disk) \cap DataBlocks :
            \E i \in AllocatedInodes(disk) : a \in BlockPointers(disk, InodeAt(disk, i))

\* C10: metadata blocks stay marked used.  After any sequence of
\* operations, the block-bitmap bit of every block below data_start is 1.
C10_MetadataStaysUsed ==
    (mounted /\ ncrash = 0) => \A a \in 0 .. (DataStart - 1) : a \in UsedBlocks(disk)

(***************************************************************************)
(* WayneFS.link.                                                           *)
(***************************************************************************)
\* link, the transaction scope; s.ret is the target parent's inode
LinkCommit(s, curr_ino, curr_inode, trg_parent_ino) ==
    IF s.err # "ok" THEN s
    ELSE CHOOSE r \in {
            Return(Commit(s1, InodeTableWrite(s1,
                              InodeTableWrite(s1, s1.ret, curr_ino, [curr_inode EXCEPT !.nlink = @ + 1]),
                              trg_parent_ino, s.ret)), 0)
          : s1 \in {Begin(s)}} : TRUE

\* link, the name looked for in the target's parent and appended; s.ret is
\* trg_dentry
LinkEntry(s, target, curr_ino, curr_inode, trg_parent_ino, trg_parent_inode) ==
    IF s.err # "ok" THEN s
    ELSE IF HasName(s.ret, SplitName(target)) THEN Raise(s, "EEXIST")
    ELSE CHOOSE r \in {LinkCommit(s1, curr_ino, curr_inode, trg_parent_ino) :
            s1 \in {WriteDirEntries(s, trg_parent_inode, Append(s.ret, <<curr_ino, SplitName(target)>>))}} : TRUE

\* link, after the lookup of the target's parent; s.ret is trg_parent_ino
LinkTo(s, target, curr_ino, curr_inode) ==
    IF s.err # "ok" THEN s
    ELSE CHOOSE r \in {LinkEntry(s1, target, curr_ino, curr_inode, s.ret, IGet(s, s.ret)) :
            s1 \in {ReadDirEntries(s, IGet(s, s.ret))}} : TRUE

\* link, the source looked for in its parent; s.ret is the parent's entries
LinkSource(s, target, source) ==
    IF s.err # "ok" THEN s
    ELSE IF FindName(s.ret, SplitName(source)) = -1 THEN Raise(s, "ENOENT")
    ELSE IF FileType(IGet(s, FindName(s.ret, SplitName(source))).mode) = S_IFDIR THEN Raise(s, "EPERM")
    ELSE CHOOSE r \in {LinkTo(s1, target, FindName(s.ret, SplitName(source)), IGet(s, FindName(s.ret, SplitName(source)))) :
            s1 \in {Lookup(s, SplitParent(target))}} : TRUE

\* link, after the lookup of the source's parent; s.ret is src_parent_ino
LinkFrom(s, target, source) ==
    IF s.err # "ok" THEN s
    ELSE CHOOSE r \in {LinkSource(s1, target, source) : s1 \in {ReadDirEntries(s, IGet(s, s.ret))}} : TRUE

\* WayneFS.link(target, source): target is the new name of source
Link(s, target, source) ==
    CHOOSE r \in {LinkFrom(s1, target, source) : s1 \in {Lookup(s, SplitParent(source))}} : TRUE

(***************************************************************************)
(* WayneFS.symlink.  source is the link's content, as bytes.               *)
(***************************************************************************)
\* list(struct.unpack("<12I", target_bytes.ljust(48, b"\x00")))
FastDirect(target_bytes) == [j \in 0 .. 11 |-> GetU32(Ljust(target_bytes, 48), 4 * j)]

\* target_bytes[ptr : ptr + block_size]
Chunk(target_bytes, ptr) ==
    SubSeq(target_bytes, ptr + 1, IF ptr + BlockSize < Len(target_bytes) THEN ptr + BlockSize ELSE Len(target_bytes))

RECURSIVE SymlinkBlocks(_, _, _, _)
\* symlink, "if is_slow": the content written block by block; s.ret is
\* curr_inode
SymlinkBlocks(s, target_bytes, idx, end_block_idx) ==
    IF s.err # "ok" \/ idx > end_block_idx THEN s
    ELSE CHOOSE r \in {SymlinkBlocks(s2, target_bytes, idx + 1, end_block_idx) :
            s2 \in {IF s1.err # "ok" THEN s1
                    ELSE Return(WriteBlockCached(s1, s1.ret.addr, Raw(Ljust(Chunk(target_bytes, idx * BlockSize), BlockSize))),
                                s1.ret.inode) :
            s1 \in {GetOrAllocDataBlockAddr(s, s.ret, idx)}}} : TRUE

\* symlink, the end of the transaction scope: both inodes and the inode
\* bitmap staged, the block bitmap too when slow, and the commit that the
\* scope's exit runs; s.ret is curr_inode
SymlinkStage(s, tx, curr_ino, link_parent_ino, link_parent_inode, is_slow) ==
    IF s.err # "ok" THEN Commit(s, tx)
    ELSE CHOOSE r \in {Return(Commit(s, IF is_slow THEN BlockBitmapFlush(s, staged) ELSE staged), 0) :
            staged \in {InodeBitmapFlush(s, InodeTableWrite(s,
                            InodeTableWrite(s, tx, curr_ino, s.ret), link_parent_ino, link_parent_inode))}} : TRUE

\* symlink, inside the transaction scope; s.ret is the transaction
SymlinkBody(s, curr_ino, link_parent_ino, link_parent_inode, target_bytes) ==
    CHOOSE r \in {SymlinkStage(s1, s.ret, curr_ino, link_parent_ino, link_parent_inode, Len(target_bytes) > 48) :
        s1 \in {IF Len(target_bytes) > 48
                THEN SymlinkBlocks(Return(s, [InodeEmpty(S_IFLNK + 511) EXCEPT !.nlink = 1, !.size = Len(target_bytes)]),
                                   target_bytes, 0, (Len(target_bytes) - 1) \div BlockSize)
                ELSE Return(s, [InodeEmpty(S_IFLNK + 511) EXCEPT !.nlink = 1, !.size = Len(target_bytes),
                                                                 !.direct = FastDirect(target_bytes)])}} : TRUE

\* symlink, the transaction scope; s.ret is the parent's inode
SymlinkCommit(s, curr_ino, link_parent_ino, target_bytes) ==
    IF s.err # "ok" THEN s
    ELSE CHOOSE r \in {SymlinkBody(s1, curr_ino, link_parent_ino, s.ret, target_bytes) : s1 \in {Begin(s)}} : TRUE

\* symlink, the entry appended to the parent; s.ret is curr_ino
SymlinkLink(s, target, target_bytes, link_parent_ino, link_parent_inode, parent_entries) ==
    IF s.err # "ok" THEN s
    ELSE CHOOSE r \in {SymlinkCommit(s1, s.ret, link_parent_ino, target_bytes) :
            s1 \in {WriteDirEntries(s, link_parent_inode, Append(parent_entries, <<s.ret, SplitName(target)>>))}} : TRUE

\* symlink, after the lookup of the parent; s.ret is link_parent_ino.  The
\* parent's entries are read and the inode allocated: the name is not
\* looked for.
SymlinkIn(s, target, target_bytes) ==
    IF s.err # "ok" THEN s
    ELSE IF FileType(IGet(s, s.ret).mode) # S_IFDIR THEN Raise(s, "ENOENT")
    ELSE CHOOSE r \in {SymlinkLink(s2, target, target_bytes, s.ret, IGet(s, s.ret), s1.ret) :
            <<s1, s2>> \in {<<d, IF d.err # "ok" THEN d ELSE AllocInode(d)>> : d \in {ReadDirEntries(s, IGet(s, s.ret))}}} : TRUE

\* WayneFS.symlink(target, source): target is the link's path
Symlink(s, target, target_bytes) ==
    CHOOSE r \in {SymlinkIn(s1, target, target_bytes) :
        s1 \in {Lookup([s EXCEPT !.dc = DcRemove(@, SplitParent(target))], SplitParent(target))}} : TRUE

(***************************************************************************)
(* WayneFS.read.                                                           *)
(***************************************************************************)
\* curr_block[curr_start_offset : curr_end_offset] of logical block idx
ReadSlice(block, offset, size, idx) ==
    SubSeq(block,
           (IF idx = offset \div BlockSize THEN offset % BlockSize ELSE 0) + 1,
           IF idx = (offset + size - 1) \div BlockSize THEN ((offset + size - 1) % BlockSize) + 1 ELSE BlockSize)

RECURSIVE ReadSlices(_, _, _, _, _, _)
\* read, the "read buffer" loop; data is what the blocks before idx gave
ReadSlices(s, inode, offset, size, idx, data) ==
    IF s.err # "ok" THEN s
    ELSE IF idx > (offset + size - 1) \div BlockSize THEN Return(s, data)
    ELSE CHOOSE r \in {ReadSlices(s2, inode, offset, size, idx + 1, data \o ReadSlice(s2.ret.b, offset, size, idx)) :
            s2 \in {ReadBlockAt(s1) : s1 \in {GetDataBlockAddr(s, inode, idx)}}} : TRUE

\* read, the transaction scope (the access time); s.ret is data
ReadCommit(s, fh, curr_inode) ==
    IF s.err # "ok" THEN s
    ELSE CHOOSE r \in {Return(Commit(s1, InodeTableWrite(s1, s1.ret, fh, curr_inode)), s.ret) : s1 \in {Begin(s)}} : TRUE

\* WayneFS.read; a file handle is the inode it is open on
Read(s, fh, size, offset) ==
    IF fh \notin s.oft THEN Raise(s, "EBADF")
    ELSE IF offset >= IGet(s, fh).size THEN Return(s, <<>>)
    ELSE IF size = 0 THEN Return(s, <<>>)
    ELSE CHOOSE r \in {ReadCommit(s1, fh, IGet(s, fh)) :
            s1 \in {ReadSlices(s, IGet(s, fh), offset, n, offset \div BlockSize, <<>>) :
            n \in {IF size < IGet(s, fh).size - offset THEN size ELSE IGet(s, fh).size - offset}}} : TRUE

(***************************************************************************)
(* A transaction scope of any caller: "with journal.begin() as tx:", the   *)
(* blocks of writes staged with tx.write, then an exception or the end of  *)
(* the block.  begin's finally clause runs commit in both cases.           *)
(***************************************************************************)
RECURSIVE Staged(_, _)
Staged(tx, writes) ==
    IF writes = <<>> THEN tx ELSE Staged(TxWrite(tx, Head(writes).a, Head(writes).d), Tail(writes))

TxScope(s, writes, raises) ==
    CHOOSE r \in {IF raises THEN Raise(s2, "Exception") ELSE s2 :
        s2 \in {Commit(s1, Staged(s1.ret, writes)) : s1 \in {Begin(s)}}} : TRUE

(***************************************************************************)
(* The namespace and file operations on their own, without kills: the      *)
(* process is mounted on the fresh image, is the one in which unlink of a  *)
(* directory has just failed, or is the one that wrote a file at the first *)
(* double-indirect offset and truncated it to 0; or no process is mounted  *)
(* and the image's journal superblock is not one.                          *)
(***************************************************************************)
LinkContents == {<<NameA[1]>>}

ReadSizes == {1, BlockSize}

StagedWrites ==
    {<<>>, <<[a |-> DataStart + 1, d |-> DataSample]>>,
     <<[a |-> DataStart + 1, d |-> DataSample], [a |-> DataStart + 2, d |-> ZeroBlock]>>}

BadJournalSuperblocks == {ZeroBlock, DataSample}

InitMounted ==
    /\ \E r0 \in {Mounted(MakeImage)} :
        \E r1 \in {Mkdir(r0, PathA)}, r2 \in {Create(r0, PathA)} :
        \E r3 \in {Write(r2, r2.ret, <<7>>, DOUBLY_LIMIT * BlockSize)} :
        \E r \in {r0, [Unlink(r1, PathA) EXCEPT !.err = "ok"], Truncate(r3, PathA, 0)} : Process(r)
    /\ mounted = TRUE
    /\ last = Last("mount", NoArgs, "ok", <<>>)

InitImage ==
    /\ \E b \in BadJournalSuperblocks : disk = [MakeImage EXCEPT ![JournalAreaStart] = b]
    /\ page_cache = EmptyCache
    /\ inode_bitmap = {}
    /\ block_bitmap = {}
    /\ journal_sb = JournalSuperblock(LogStart, LogStart, 0)
    /\ next_tid = 0
    /\ dentry_cache = {}
    /\ open_files = {}
    /\ mounted = FALSE
    /\ last = Last("image", NoArgs, "ok", <<>>)

InitOps ==
    /\ InitMounted \/ InitImage
    /\ nops = 0
    /\ ncrash = 0

DoLink ==
    \E target \in Paths, source \in Paths, s \in {Cur} :
        \E r \in {Link(s, target, source)} : Finish(r, "link", [target |-> target, source |-> source])

DoSymlink ==
    \E target \in Paths, source \in LinkContents, s \in {Cur} :
        \E r \in {Symlink(s, target, source)} : Finish(r, "symlink", [target |-> target, source |-> source])

DoRead ==
    \E fh \in Handles, size \in ReadSizes, offset \in WriteOffsets, s \in {Cur} :
        \E r \in {Read(s, fh, size, offset)} : Finish(r, "read", [fh |-> fh, size |-> size, offset |-> offset])

DoTxScope ==
    \E writes \in StagedWrites, raises \in BOOLEAN, s \in {Cur} :
        \E r \in {TxScope(s, writes, raises)} : Finish(r, "tx", [writes |-> writes, raises |-> raises])

NextOps ==
    \/ DoCreate
    \/ DoUnlink
    \/ DoLink
    \/ DoSymlink
    \/ DoWrite
    \/ DoRead
    \/ DoTxScope
    \/ Mount

SpecOps == InitOps /\ [][NextOps]_vars

(***************************************************************************)
(* Namespace, block-arithmetic and error properties.                       *)
(***************************************************************************)
\* the entries of directory j, "." and ".." apart, that name a directory
SubdirEntries(d, j) ==
    {e \in 1 .. Len(DirEntriesOf(d, j)) :
        /\ DirEntriesOf(d, j)[e][2] \notin {Dot, DotDot}
        /\ DirEntriesOf(d, j)[e][1] \in Inodes
        /\ FileType(InodeAt(d, DirEntriesOf(d, j)[e][1]).mode) = S_IFDIR}

\* C11: directory link count.  After any sequence of operations, every
\* allocated directory inode has nlink = 2 + the number of entries of its
\* directory block, "." and ".." apart, that refer to directories.
C11_DirectoryLinkCount ==
    (mounted /\ ncrash = 0) =>
        \A j \in AllocatedInodes(disk) :
            FileType(InodeAt(disk, j).mode) = S_IFDIR
                => InodeAt(disk, j).nlink = 2 + Cardinality(SubdirEntries(disk, j))

\* the logical block indices the block translator is called with
SampleIdx == {0, 1, SINGLY_LIMIT, SINGLY_LIMIT + 1, DOUBLY_LIMIT, DOUBLY_LIMIT + 1}

\* get_or_alloc(inode, i) in state s, when it returns a: a is not 0,
\* get_addr(inode, i) is a, and a is neither the address of another
\* allocated index j nor an index block of the inode
BlockArithAt(s, inode, i) ==
    \A r \in {GetOrAllocDataBlockAddr(s, inode, i)} :
        r.err = "ok" =>
            /\ r.ret.addr # 0
            /\ \A g \in {GetDataBlockAddr(r, r.ret.inode, i)} : g.err = "ok" /\ g.ret = r.ret.addr
            /\ \A j \in SampleIdx \ {i} : \A g \in {GetDataBlockAddr(r, r.ret.inode, j)} :
                (g.err = "ok" /\ g.ret # 0) => g.ret # r.ret.addr
            /\ r.ret.addr \notin IndexBlocks(r.disk, r.ret.inode)

\* C13: block arithmetic.  On every state the operations reach, for every
\* regular-file inode and logical index i, get_or_alloc(inode, i) returns a
\* non-zero address that get_addr(inode, i) returns too and that differs
\* from the address of every other allocated index and from every index
\* block of the inode.
C13_BlockArithmetic ==
    (mounted /\ ncrash = 0) =>
        \A ino \in AllocatedInodes(disk) :
            FileType(InodeAt(disk, ino).mode) = S_IFREG
                => \A i \in SampleIdx : BlockArithAt(Cur, IGet(Cur, ino), i)

\* the inode _lookup finds for path in the running process, or -1
TargetOf(path) ==
    CHOOSE v \in {IF r.err = "ok" THEN r.ret ELSE -1 : r \in {Lookup(Cur, path)}} : TRUE

\* the bitmaps in memory and the filesystem state on the image are as they
\* were before the step
Untouched ==
    /\ Meta(disk') = Meta(disk)
    /\ inode_bitmap' = inode_bitmap
    /\ block_bitmap' = block_bitmap

\* C15: unlink on a directory fails with EISDIR and leaves the parent's
\* entries, every inode record and both bitmaps as they were.
C15_UnlinkDirectory ==
    [][(/\ last'.op = "unlink" /\ mounted'
        /\ TargetOf(last'.args.path) # -1
        /\ FileType(InodeAt(disk, TargetOf(last'.args.path)).mode) = S_IFDIR)
            => (last'.err = "EISDIR" /\ Untouched)]_vars

\* C16: path-resolution failures do not mutate.  An operation that fails
\* with ENOENT has changed neither the image nor the bitmaps, the journal
\* superblock, the transaction counter and the open files in memory.
C16_NotFoundDoesNotMutate ==
    [][(last'.op \in FsOps /\ mounted' /\ last'.err = "ENOENT")
        => (/\ disk' = disk
            /\ inode_bitmap' = inode_bitmap
            /\ block_bitmap' = block_bitmap
            /\ journal_sb' = journal_sb
            /\ next_tid' = next_tid
            /\ open_files' = open_files)]_vars

\* C17: no space after partial progress is rolled back.  An operation that
\* fails with ENOSPC has committed no transaction and leaves the inode and
\* block bitmaps in memory as they were before it.
C17_NoSpaceRolledBack ==
    [][(last'.op \in FsOps /\ mounted' /\ last'.err = "ENOSPC")
        => (/\ inode_bitmap' = inode_bitmap
            /\ block_bitmap' = block_bitmap
            /\ journal_sb' = journal_sb)]_vars

\* the directory entries of the allocated directories that refer to inode i
EntriesFor(d, i) ==
    {<<j, e>> \in AllocatedInodes(d) \X (1 .. BlockSize) :
        /\ FileType(InodeAt(d, j).mode) = S_IFDIR
        /\ e <= Len(DirEntriesOf(d, j))
        /\ DirEntriesOf(d, j)[e][1] = i}

\* C12: regular-file link count.  After any sequence of operations, every
\* allocated regular-file inode has nlink = the number of directory entries
\* that refer to it.
C12_FileLinkCount ==
    (mounted /\ ncrash = 0) =>
        \A i \in AllocatedInodes(disk) :
            FileType(InodeAt(disk, i).mode) = S_IFREG
                => InodeAt(disk, i).nlink = Cardinality(EntriesFor(disk, i))

\* the path whose final name the operation of the step is to make
NewPath == IF last'.op \in {"create", "mkdir"} THEN last'.args.path ELSE last'.args.target

\* the source of the link of the step names a file of the root directory
\* that is not a directory
SourceLinkable ==
    /\ FindName(DirEntriesOf(disk, ROOT_INO), SplitName(last'.args.source)) # -1
    /\ FileType(InodeAt(disk, FindName(DirEntriesOf(disk, ROOT_INO), SplitName(last'.args.source))).mode) # S_IFDIR

\* C14: exists errors.  create, mkdir, symlink and link (of a source that
\* can be linked), called with a final name that the parent directory (the
\* root, for every path the operations are called with) already has, fail
\* with EEXIST and leave directory blocks, inode records and bitmaps
\* unchanged.
C14_ExistsErrors ==
    [][(/\ last'.op \in {"create", "mkdir", "symlink", "link"} /\ mounted'
        /\ HasName(DirEntriesOf(disk, ROOT_INO), SplitName(NewPath))
        /\ (last'.op = "link" => SourceLinkable))
            => (last'.err = "EEXIST" /\ Untouched)]_vars

\* C18: a failed transaction is never committed.  When an exception is
\* raised inside a transaction scope after blocks were staged, no
\* descriptor or commit record is written, tail and last_tid keep their
\* values and no staged block is at its final address.
C18_FailedTransactionNotCommitted ==
    [][(last'.op = "tx" /\ last'.args.raises /\ last'.args.writes # <<>>)
        => (/\ \A w \in 1 .. Len(last'.wlog) : last'.wlog[w].st \notin {"desc", "commit"}
            /\ journal_sb'.tail = journal_sb.tail
            /\ journal_sb'.last_tid = journal_sb.last_tid
            /\ \A w \in 1 .. Len(last'.args.writes) : disk'[last'.args.writes[w].a] = disk[last'.args.writes[w].a])]_vars

\* C19: mounting an image whose journal superblock does not carry the
\* magic fails the mount and writes nothing to the image.
C19_CorruptJournalSuperblock ==
    [][(~mounted /\ disk[JournalAreaStart].k # "jsb") => (~mounted' /\ disk' = disk)]_vars

\* what read(size, offset) on handle fh returns in the process state s, or
\* <<-1>> when it raises
ReadBack(s, fh, size, offset) ==
    CHOOSE v \in {IF r.err = "ok" THEN r.ret ELSE <<-1>> : r \in {Read(s, fh, size, offset)}} : TRUE

\* byte p of the file, or 0 where the read gives none
ByteAt(s, fh, p) ==
    CHOOSE v \in {IF Len(b) = 1 THEN b[1] ELSE 0 : b \in {ReadBack(s, fh, 1, p)}} : TRUE

\* C20: write/read round trip.  After a successful write(handle, data,
\* offset) the file size is max(old size, offset + len(data)), a following
\* read(len(data), offset) returns data, and the bytes of the file below
\* the old size and outside the written range are unchanged.
C20_WriteReadRoundTrip ==
    [][(last'.op = "write" /\ mounted' /\ last'.err = "ok")
        => (/\ InodeAt(disk', last'.args.fh).size
                = Max(InodeAt(disk, last'.args.fh).size, last'.args.offset + Len(last'.args.data))
            /\ ReadBack(Cur', last'.args.fh, Len(last'.args.data), last'.args.offset) = last'.args.data
            /\ \A p \in 0 .. (InodeAt(disk, last'.args.fh).size - 1) :
                (p < last'.args.offset \/ p >= last'.args.offset + Len(last'.args.data))
                    => ByteAt(Cur', last'.args.fh, p) = ByteAt(Cur, last'.args.fh, p))]_vars

(***************************************************************************)
(* WayneFS.readlink.                                                       *)
(***************************************************************************)
\* readlink, after the lookup; s.ret is ino.  The target's first target_len
\* bytes, decoded.
ReadlinkOf(s) ==
    IF s.err # "ok" THEN s
    ELSE IF FileType(IGet(s, s.ret).mode) # S_IFLNK THEN Raise(s, "EINVAL")
    ELSE CHOOSE r \in {IF ~Utf8Ok(s1.ret) THEN Raise(s1, "UnicodeDecodeError") ELSE s1 :
            s1 \in {LinkTarget(s, IGet(s, s.ret))}} : TRUE

\* WayneFS.readlink
Readlink(s, path) ==
    CHOOSE r \in {ReadlinkOf(s1) : s1 \in {Lookup(s, path)}} : TRUE

(***************************************************************************)
(* Links and sizes: symlink with an inline and with a spilled target,      *)
(* readlink, and truncate to lengths inside and beyond the first block, on *)
(* the fresh image or on one with a three-byte file /a open as handle 1.   *)
(***************************************************************************)
\* "x", and "y" 49 times: one byte more than direct[] holds
LongTarget == [i \in 1 .. 49 |-> 121]

SymlinkTargets == {<<120>>, LongTarget}

ResizeLengths == {2, 5, BlockSize + 2}

FileBytes == <<7, 7, 7>>

InitFile ==
    /\ \E r0 \in {Mounted(MakeImage)} :
        \E r1 \in {Create(r0, PathA)} :
        \E r \in {r0, Write(r1, r1.ret, FileBytes, 0)} : Process(r)
    /\ mounted = TRUE
    /\ nops = 0
    /\ ncrash = 0
    /\ last = Last("mount", NoArgs, "ok", <<>>)

DoSymlinkTo ==
    \E target \in Paths, source \in SymlinkTargets, s \in {Cur} :
        \E r \in {Symlink(s, target, source)} : Finish(r, "symlink", [target |-> target, source |-> source])

\* readlink; what it returned is kept with the step
DoReadlink ==
    \E p \in Paths, s \in {Cur} :
        \E r \in {Readlink(s, p)} : Finish(r, "readlink", [path |-> p, ret |-> r.ret])

DoResize ==
    \E p \in Paths, length \in ResizeLengths, s \in {Cur} :
        \E r \in {Truncate(s, p, length)} : Finish(r, "truncate", [path |-> p, length |-> length])

NextFile ==
    \/ DoCreate
    \/ DoSymlinkTo
    \/ DoReadlink
    \/ DoResize

SpecFile == InitFile /\ [][NextFile]_vars

(***************************************************************************)
(* symlink and readlink; truncate that extends.                            *)
(***************************************************************************)
\* C21: symlink/readlink round trip.  readlink(p) right after a successful
\* symlink(p, target) returns target, for a target of at most 48 bytes,
\* kept in direct[] without a data block allocated, and for a longer one,
\* kept in data blocks.
C21_SymlinkReadlinkRoundTrip ==
    [][/\ (last'.op = "readlink" /\ last.op = "symlink" /\ last.err = "ok" /\ last'.args.path = last.args.target)
            => (last'.err = "ok" /\ last'.args.ret = last.args.source)
       /\ (last'.op = "symlink" /\ last'.err = "ok" /\ Len(last'.args.source) <= 48)
            => block_bitmap' = block_bitmap]_vars

\* the size of the file at path before the step, or -1
SizeBefore(path) ==
    CHOOSE v \in {IF ino = -1 THEN -1 ELSE InodeAt(disk, ino).size : ino \in {TargetOf(path)}} : TRUE

\* C22: truncate extension reads as zero.  After truncate has extended a
\* file (open, so that it can be read) from size s to a larger length n,
\* the file has size n and every byte at an offset in [s, n) reads as zero.
C22_TruncateExtensionZero ==
    [][(/\ last'.op = "truncate" /\ last'.err = "ok"
        /\ TargetOf(last'.args.path) \in open_files
        /\ SizeBefore(last'.args.path) < last'.args.length)
            => (/\ InodeAt(disk', TargetOf(last'.args.path)).size = last'.args.length
                /\ \A p \in SizeBefore(last'.args.path) .. (last'.args.length - 1) :
                    ByteAt(Cur', TargetOf(last'.args.path), p) = 0)]_vars

(***************************************************************************)
(* The journal between operations.                                         *)
(***************************************************************************)
\* head and tail of a journal superblock are slots of the ring
InRing(jsb) ==
    /\ jsb.head \in jsb.start_block .. (jsb.start_block + jsb.num_blocks - 1)
    /\ jsb.tail \in jsb.start_block .. (jsb.start_block + jsb.num_blocks - 1)

\* C23: clean log between operations.  Whenever a process is mounted and no
\* commit is in progress (every state of a mounted process is one after the
\* mount, after a recovery or after a completed operation), the journal
\* superblock has head = tail in memory and on the image; head and tail
\* always lie in [start_block, start_block + num_blocks).
C23_CleanLogBetweenOperations ==
    /\ InRing(journal_sb) /\ InRing(disk[JournalAreaStart])
    /\ mounted => (/\ journal_sb.head = journal_sb.tail
                   /\ disk[JournalAreaStart].head = disk[JournalAreaStart].tail)

(***************************************************************************)
(* The journal on its own: transaction scopes that stage blocks and        *)
(* register ordered-data pages, Bitmap.flush of a bitmap of any geometry   *)
(* into a transaction, and a new process mounted on the image.  The page   *)
(* cache holds CachedPage objects here, as src/journal.py takes them.      *)
(***************************************************************************)
\* Transaction.add_data_dependency, for every address of deps
AddDataDependency(tx, deps) == [tx EXCEPT !.ordered_data_blocks = @ \cup deps]

\* "with journal.begin() as tx:", the writes staged and the pages of deps
\* registered, then the end of the block
TxOrdered(s, writes, deps) ==
    CHOOSE r \in {Commit(s1, AddDataDependency(Staged(s1.ret, writes), deps)) : s1 \in {Begin(s)}} : TRUE

RECURSIVE BlocksFrom(_, _, _)
\* Bitmap.__init__: the bytes of num_blocks blocks from start_block on
BlocksFrom(d, start_block, num_blocks) ==
    IF num_blocks = 0 THEN <<>>
    ELSE BlocksFrom(d, start_block, num_blocks - 1) \o d[start_block + num_blocks - 1].b

\* Bitmap.__init__: buf[:total_bytes], a slice, which gives what there is
BitmapBuf(d, start_block, num_blocks, total_items) ==
    SubSeq(BlocksFrom(d, start_block, num_blocks), 1,
           IF (total_items + 7) \div 8 < num_blocks * BlockSize THEN (total_items + 7) \div 8 ELSE num_blocks * BlockSize)

\* buf[data_ptr : data_ptr + block_size]
BufSlice(buf, data_ptr) ==
    SubSeq(buf, data_ptr + 1, IF data_ptr + BlockSize < Len(buf) THEN data_ptr + BlockSize ELSE Len(buf))

RECURSIVE BitmapFlush(_, _, _, _, _)
\* Bitmap.flush(tx): block i and the ones after it staged; Transaction.write
\* asserts that what it is given is block_size long.  s.ret is tx.
BitmapFlush(s, buf, start_block, num_blocks, i) ==
    IF i = num_blocks THEN s
    ELSE IF Len(BufSlice(buf, i * BlockSize)) # BlockSize THEN Raise(s, "AssertionError")
    ELSE BitmapFlush(Return(s, TxWrite(s.ret, start_block + i, Raw(BufSlice(buf, i * BlockSize)))),
                     buf, start_block, num_blocks, i + 1)

\* "with journal.begin() as tx: bitmap.flush(tx)" for a Bitmap made over
\* num_blocks blocks at start_block; what was staged is returned
FlushScope(s, start_block, num_blocks, total_items) ==
    CHOOSE r \in {Return(Commit(s2, s2.ret), s2.ret.write_buffer) :
        s2 \in {BitmapFlush(s1, BitmapBuf(s.disk, start_block, num_blocks, total_items), start_block, num_blocks, 0) :
        s1 \in {Begin(s)}}} : TRUE

\* a block of data with first byte v
Sample(v) == Raw(Ljust(<<v>>, BlockSize))

Staging(a, v) == [a |-> a, d |-> Sample(v)]

\* what a scope stages: nothing, one block, an address twice, and as many
\* blocks as fill the ring and one more
TxWrites ==
    {<<>>,
     <<Staging(DataStart + 1, 1)>>,
     <<Staging(DataStart + 1, 1), Staging(DataStart + 2, 2), Staging(DataStart + 1, 3)>>,
     <<Staging(DataStart + 1, 1), Staging(DataStart + 2, 2), Staging(DataStart + 3, 3), Staging(DataStart + 4, 4)>>,
     <<Staging(DataStart, 5), Staging(DataStart + 1, 1), Staging(DataStart + 2, 2), Staging(DataStart + 3, 3),
       Staging(DataStart + 4, 4)>>}

TxDeps == {{}, {DataStart + 1}, {DataStart + 2, DataStart + 3, DataStart + 4}}

\* the bitmaps flushed: bits and blocks
BitmapTotalItems == {16, 8 * BlockSize, 16 * BlockSize}

BitmapNumBlocks == {1, 2}

BitmapStart == DataStart + 1

\* pages DataStart + 1 and + 2 dirty, + 3 clean, the rest not cached
JournalCache ==
    [a \in Blocks |->
        IF a \in {DataStart + 1, DataStart + 2} THEN CachedPage(Sample(20 + a), TRUE)
        ELSE IF a = DataStart + 3 THEN CachedPage(ZeroBlock, FALSE)
        ELSE NoPage]

InitJournal ==
    /\ \E r0 \in {Mounted(MakeImage)} : Process([r0 EXCEPT !.cache = JournalCache])
    /\ mounted = TRUE
    /\ nops = 0
    /\ ncrash = 0
    /\ last = Last("mount", NoArgs, "ok", <<>>)

DoTx ==
    \E writes \in TxWrites, deps \in TxDeps, s \in {Cur} :
        \E r \in {TxOrdered(s, writes, deps)} : Finish(r, "txn", [writes |-> writes, deps |-> deps])

DoFlush ==
    \E total_items \in BitmapTotalItems, num_blocks \in BitmapNumBlocks, s \in {Cur} :
        \E r \in {FlushScope(s, BitmapStart, num_blocks, total_items)} :
            Finish(r, "flush", [total_items |-> total_items, num_blocks |-> num_blocks, staged |-> r.ret])

\* the process ends and WayneFS.__init__ runs on the image it leaves
Remount ==
    /\ mounted /\ last.op # "remount"
    /\ \E r \in {Mounted(disk)} :
        /\ disk' = r.disk
        /\ page_cache' = r.cache
        /\ inode_bitmap' = r.ibm
        /\ block_bitmap' = r.bbm
        /\ journal_sb' = r.jsb
        /\ next_tid' = r.tid
        /\ dentry_cache' = r.dc
        /\ open_files' = r.oft
    /\ last' = Last("remount", NoArgs, "ok", <<>>)
    /\ UNCHANGED <<mounted, nops, ncrash>>

NextJournal ==
    \/ DoTx
    \/ DoFlush
    \/ Remount

SpecJournal == InitJournal /\ [][NextJournal]_vars

(***************************************************************************)
(* Commit, as the device sees it.                                          *)
(***************************************************************************)
RECURSIVE FirstStaged(_)
\* the addresses of writes, each once, in the order of their first staging
FirstStaged(writes) ==
    IF writes = <<>> THEN <<>>
    ELSE IF \E i \in 1 .. (Len(writes) - 1) : writes[i].a = writes[Len(writes)].a
         THEN FirstStaged(SubSeq(writes, 1, Len(writes) - 1))
         ELSE Append(FirstStaged(SubSeq(writes, 1, Len(writes) - 1)), writes[Len(writes)].a)

\* the block staged last for address a
LastStaged(writes, a) ==
    writes[CHOOSE i \in 1 .. Len(writes) : writes[i].a = a /\ \A j \in (i + 1) .. Len(writes) : writes[j].a # a].d

\* the ring slot k slots after slot from
RingSlot(jsb, from, k) == jsb.start_block + ((from - jsb.start_block + k) % jsb.num_blocks)

\* the device writes of a step from the descriptor on
FromDescriptor(wlog) ==
    SubSeq(wlog, CHOOSE i \in 1 .. Len(wlog) : wlog[i].st = "desc" /\ \A j \in 1 .. (i - 1) : wlog[j].st # "desc", Len(wlog))

\* w is, in this order: the descriptor of tid at the tail of jsb, the blocks
\* of writes in staging order at the next slots, the commit block, the
\* journal superblock with the tail moved on and last_tid = tid, the blocks
\* at their final addresses, the journal superblock with head = tail
CommitOrder(w, jsb, tid, writes) ==
    /\ Len(w) = (2 * Len(FirstStaged(writes))) + 4
    /\ w[1].a = jsb.tail /\ w[1].d = DescriptorBlock(tid, FirstStaged(writes))
    /\ \A i \in 1 .. Len(FirstStaged(writes)) :
        /\ w[1 + i].a = RingSlot(jsb, jsb.tail, i)
        /\ w[1 + i].d = LastStaged(writes, FirstStaged(writes)[i])
        /\ w[Len(FirstStaged(writes)) + 3 + i].a = FirstStaged(writes)[i]
        /\ w[Len(FirstStaged(writes)) + 3 + i].d = LastStaged(writes, FirstStaged(writes)[i])
    /\ w[Len(FirstStaged(writes)) + 2].a = RingSlot(jsb, jsb.tail, Len(FirstStaged(writes)) + 1)
    /\ w[Len(FirstStaged(writes)) + 2].d = CommitBlock(tid)
    /\ w[Len(FirstStaged(writes)) + 3].a = JournalAreaStart
    /\ w[Len(FirstStaged(writes)) + 3].d =
        JsbBlock([jsb EXCEPT !.tail = RingSlot(jsb, jsb.tail, Len(FirstStaged(writes)) + 2), !.last_tid = tid])
    /\ w[Len(w)].a = JournalAreaStart
    /\ w[Len(w)].d =
        JsbBlock([jsb EXCEPT !.tail = RingSlot(jsb, jsb.tail, Len(FirstStaged(writes)) + 2), !.last_tid = tid,
                             !.head = RingSlot(jsb, jsb.tail, Len(FirstStaged(writes)) + 2)])
    /\ \A i \in 1 .. (Len(FirstStaged(writes)) + 2) : w[i].a \in jsb.start_block .. (jsb.start_block + jsb.num_blocks - 1)

\* C24: commit write order.  The device writes of one commit are, in this
\* order: the descriptor at the old tail, the n staged blocks in staging
\* order at the next n ring slots, the commit block, the journal superblock
\* with the tail n + 2 slots on (modulo num_blocks) and last_tid = tid, the
\* n blocks at their final addresses, and the journal superblock with head
\* = tail; up to the superblock that records the new tail every write goes
\* to a ring slot.
C24_CommitWriteOrder ==
    [][(last'.op = "txn" /\ last'.args.writes # <<>>)
        => CommitOrder(FromDescriptor(last'.wlog), journal_sb, next_tid', last'.args.writes)]_vars

\* a commit of two blocks or more has gone round the end of the ring
C24_Witness ==
    /\ last.op = "txn" /\ Len(FirstStaged(last.args.writes)) >= 2
    /\ \E i \in 2 .. Len(last.wlog) : last.wlog[i].st = "logdata" /\ last.wlog[i].a < last.wlog[i - 1].a

\* the steps of a commit that write the log or the journal superblock
LogWrites(wlog) == {i \in 1 .. Len(wlog) : wlog[i].st \in {"desc", "logdata", "commit", "jsb_tail", "jsb_head"}}

\* C25: empty transactions emit nothing.  Closing a transaction that staged
\* no block writes no descriptor, data or commit block and leaves the
\* journal superblock unchanged in memory and on the image, whether or not
\* ordered-data dependencies were registered on it.
C25_EmptyTransactionEmitsNothing ==
    [][(last'.op = "txn" /\ last'.args.writes = <<>>)
        => (/\ LogWrites(last'.wlog) = {}
            /\ journal_sb' = journal_sb
            /\ disk'[JournalAreaStart] = disk[JournalAreaStart])]_vars

\* C26: transaction ids.  The transaction begin() returns has tid equal to
\* the journal superblock's last_tid at that moment plus 1, and a commit
\* leaves a last_tid greater than the one before it, the one a mount read
\* from the image included.
C26_TransactionIds ==
    [][(last'.op = "txn")
        => (/\ next_tid' = journal_sb.last_tid + 1
            /\ LogWrites(last'.wlog) # {} => (journal_sb'.last_tid = next_tid' /\ journal_sb'.last_tid > journal_sb.last_tid))]_vars

\* C27: ring overflow is fatal.  A commit of n staged blocks with n + 2
\* greater than num_blocks - 1 is rejected with an error before any log
\* block is written.
C27_RingOverflowFatal ==
    [][(last'.op = "txn" /\ Len(FirstStaged(last'.args.writes)) + 2 > journal_sb.num_blocks - 1)
        => (last'.err # "ok" /\ LogWrites(last'.wlog) = {})]_vars

\* the positions of the writes of a step that carry tag st
Tagged(wlog, st) == {i \in 1 .. Len(wlog) : wlog[i].st = st}

\* C28: staging overwrites per address.  Staging an address a second time
\* replaces the staged bytes and keeps the address's position: the
\* descriptor lists the staged addresses once each, in the order of their
\* first staging, and the write to each final address carries the bytes
\* staged last for it.
C28_StagingOverwrites ==
    [][(last'.op = "txn" /\ last'.args.writes # <<>>)
        => (/\ \A i \in Tagged(last'.wlog, "desc") : last'.wlog[i].d.addrs = FirstStaged(last'.args.writes)
            /\ Cardinality(Tagged(last'.wlog, "checkpoint")) = Len(FirstStaged(last'.args.writes))
            /\ \A i \in Tagged(last'.wlog, "checkpoint") :
                last'.wlog[i].d = LastStaged(last'.args.writes, last'.wlog[i].a))]_vars

\* a transaction that staged an address twice, with different bytes, has
\* been committed
C28_Witness ==
    /\ last.op = "txn" /\ last.err = "ok"
    /\ \E i, j \in 1 .. Len(last.args.writes) :
        i < j /\ last.args.writes[i].a = last.args.writes[j].a /\ last.args.writes[i].d # last.args.writes[j].d
    /\ Tagged(last.wlog, "checkpoint") # {}

\* C29: ordered data before metadata.  At commit every registered
\* ordered-data address whose page is cached and dirty is written to the
\* device with the page's data, and fsync is called, before the descriptor
\* of the transaction is written; afterwards those pages are clean.
C29_OrderedDataFirst ==
    [][(last'.op = "txn" /\ last'.args.deps # {})
        => (/\ \E f \in Tagged(last'.wlog, "fsync") : \A d \in Tagged(last'.wlog, "desc") : f < d
            /\ \A a \in {b \in last'.args.deps : page_cache[b] # NoPage /\ page_cache[b].dirty} :
                /\ \E i \in 1 .. Len(last'.wlog) :
                    /\ last'.wlog[i].a = a /\ last'.wlog[i].d = page_cache[a].data
                    /\ \E f \in Tagged(last'.wlog, "fsync") : i < f
                /\ ~page_cache'[a].dirty)]_vars

\* a transaction with a dirty registered page and staged blocks has been
\* committed: the page's write and the descriptor are both among its writes
C29_Witness ==
    /\ last.op = "txn" /\ last.args.deps # {}
    /\ Tagged(last.wlog, "ordered") # {} /\ Tagged(last.wlog, "checkpoint") # {}

\* C30: bitmap flush stages whole blocks.  For a bitmap of any total_items
\* and num_blocks, flush(tx) returns having staged num_blocks entries, one
\* for each address start_block + i, each block_size bytes long.
C30_BitmapFlushWholeBlocks ==
    [][(last'.op = "flush")
        => (/\ last'.err = "ok"
            /\ Len(last'.args.staged) = last'.args.num_blocks
            /\ \A i \in 1 .. Len(last'.args.staged) :
                /\ last'.args.staged[i].a = BitmapStart + i - 1
                /\ Len(last'.args.staged[i].d.b) = BlockSize)]_vars

(***************************************************************************)
(* The allocators on their own.  The process holds any block bitmap that   *)
(* allocation and release can leave over the data region (the metadata     *)
(* blocks and the root's block marked, or block 0 released as unlink       *)
(* releases it) and an inode bitmap with the first inodes taken;           *)
(* _alloc_block, _alloc_inode and _free_block are called on it.            *)
(***************************************************************************)
\* the inodes marked used at the start: the root and the n after it
TakenInodes == {0 .. n : n \in {0, 1, InodeCount - 2, InodeCount - 1}}

\* the blocks marked used at the start
TakenBlocks ==
    {((0 .. DataStart) \ low) \cup high : low \in {{}, {0}}, high \in SUBSET ((DataStart + 1) .. (TotalBlocks - 1))}

InitAlloc ==
    /\ \E r0 \in {Mounted(MakeImage)}, ibm \in TakenInodes, bbm \in TakenBlocks :
        Process([r0 EXCEPT !.ibm = ibm, !.bbm = bbm])
    /\ mounted = TRUE
    /\ nops = 0
    /\ ncrash = 0
    /\ last = Last("mount", NoArgs, "ok", <<>>)

\* _alloc_block; what it returned is kept with the step
DoAllocBlock ==
    \E s \in {Cur} : \E r \in {AllocBlock(s)} : Finish(r, "alloc_block", [ret |-> r.ret])

\* _alloc_inode; what it returned is kept with the step
DoAllocInode ==
    \E s \in {Cur} : \E r \in {AllocInode(s)} : Finish(r, "alloc_inode", [ret |-> r.ret])

DoFreeBlock ==
    \E blk_idx \in DataBlocks, s \in {Cur} :
        \E r \in {FreeBlock(s, blk_idx)} : Finish(r, "free_block", [blk_idx |-> blk_idx])

NextAlloc ==
    \/ DoAllocBlock
    \/ DoAllocInode
    \/ DoFreeBlock

SpecAlloc == InitAlloc /\ [][NextAlloc]_vars

\* the clear bits of the block bitmap in the data region
FreeDataBits == {b \in DataBlocks : b \notin block_bitmap}

\* C31: block allocation.  _alloc_block returns the lowest block index at
\* or above data_start whose bit was 0 and sets that bit, and raises ENOSPC
\* with the bitmap unchanged when there is none; the block it returns is
\* never below data_start and never one whose bit was 1.
C31_AllocBlockLowestFree ==
    [][(last'.op = "alloc_block") =>
        IF FreeDataBits = {}
        THEN last'.err = "ENOSPC" /\ block_bitmap' = block_bitmap
        ELSE /\ last'.err = "ok"
             /\ last'.args.ret \in FreeDataBits
             /\ \A b \in FreeDataBits : last'.args.ret <= b
             /\ block_bitmap' = block_bitmap \cup {last'.args.ret}]_vars

\* _alloc_block returned a block above a used one while the bit of block 0
\* and the bit of a higher data block were clear
C31_Witness ==
    /\ last.op = "alloc_block"
    /\ last.err = "ok"
    /\ last.args.ret = DataStart + 2
    /\ 0 \notin block_bitmap
    /\ (TotalBlocks - 1) \notin block_bitmap

\* C32: inode allocation stays inside the inode table.  _alloc_inode
\* returns an index i with 1 <= i < inode_count whose bit was 0, or raises
\* ENOSPC.
C32_AllocInodeInTable ==
    [][(last'.op = "alloc_inode") =>
        \/ last'.err = "ENOSPC"
        \/ /\ last'.err = "ok"
           /\ last'.args.ret \in 1 .. (InodeCount - 1)
           /\ last'.args.ret \notin inode_bitmap]_vars

(***************************************************************************)
(* The block map of one file.  The process has created /a, open as handle  *)
(* 1, and written nothing, or one byte at the first single-indirect        *)
(* offset (with or without a byte at offset 0), or one byte at the first   *)
(* double-indirect offset; write, truncate, unlink and _get_data_block_addr *)
(* are called on it.                                                       *)
(***************************************************************************)
\* the logical block indices _get_data_block_addr is called with
AddrIndices == {0, SINGLY_LIMIT - 1, SINGLY_LIMIT, DOUBLY_LIMIT - 1, DOUBLY_LIMIT, DOUBLY_LIMIT + AddrsPerBlock}

\* the lengths truncate is called with
ShrinkLengths == {1, SINGLY_LIMIT * BlockSize, DOUBLY_LIMIT * BlockSize}

InitBlocks ==
    /\ \E r0 \in {Create(Mounted(MakeImage), PathA)} :
        \E r1 \in {Write(r0, r0.ret, <<14>>, SINGLY_LIMIT * BlockSize)} :
        \E r \in {r0, r1, Write(r1, r0.ret, <<14>>, 0), Write(r0, r0.ret, <<14>>, DOUBLY_LIMIT * BlockSize)} :
            Process(r)
    /\ mounted = TRUE
    /\ nops = 0
    /\ ncrash = 0
    /\ last = Last("mount", NoArgs, "ok", <<>>)

\* the call ended in state r: it returned or raised, or it left what the
\* model follows, and then it is the last call of the run
Ended(r, op, args) ==
    /\ mounted /\ nops < MaxOps
    /\ disk' = r.disk
    /\ page_cache' = r.cache
    /\ inode_bitmap' = r.ibm
    /\ block_bitmap' = r.bbm
    /\ journal_sb' = r.jsb
    /\ next_tid' = r.tid
    /\ dentry_cache' = r.dc
    /\ open_files' = r.oft
    /\ nops' = IF r.err \in NotFollowed THEN MaxOps ELSE nops + 1
    /\ last' = Last(op, args, r.err, r.wlog)
    /\ UNCHANGED <<mounted, ncrash>>

\* _get_data_block_addr on the inode of an open file; what it returned is
\* kept with the step
DoGetAddr ==
    \E ino \in open_files, idx \in AddrIndices, s \in {Cur} :
        \E r \in {GetDataBlockAddr(s, IGet(s, ino), idx)} :
            Ended(r, "get_addr", [ino |-> ino, idx |-> idx, ret |-> r.ret])

DoShrink ==
    \E p \in Paths, length \in ShrinkLengths, s \in {Cur} :
        \E r \in {Truncate(s, p, length)} : Finish(r, "truncate", [path |-> p, length |-> length])

NextBlocks ==
    \/ DoWrite
    \/ DoShrink
    \/ DoUnlink
    \/ DoGetAddr

SpecBlocks == InitBlocks /\ [][NextBlocks]_vars

\* an entry of the index block at a on image d, 0 when a is 0
EntryOf(d, a, i) == IF a \in DataBlocks THEN GetU32(d[a].b, 4 * i) ELSE 0

\* the address image d holds for logical block idx of inode, 0 when the
\* block or an index block on the way to it is not allocated
StoredAddr(d, inode, idx) ==
    IF idx < SINGLY_LIMIT THEN inode.direct[idx]
    ELSE IF idx < DOUBLY_LIMIT THEN EntryOf(d, inode.direct[10], idx - SINGLY_LIMIT)
    ELSE EntryOf(d, EntryOf(d, inode.direct[11], (idx - DOUBLY_LIMIT) \div AddrsPerBlock),
                 (idx - DOUBLY_LIMIT) % AddrsPerBlock)

\* C33: get_addr on unallocated indices.  _get_data_block_addr(inode, i)
\* returns 0 for every logical index i that is not allocated, the indices
\* behind a direct[10], a direct[11] or a level-1 entry of 0 included, and
\* reads no block through a pointer that is 0.
C33_GetAddrUnallocated ==
    (last.op = "get_addr" /\ StoredAddr(disk, InodeAt(disk, last.args.ino), last.args.idx) = 0)
        => (last.err = "ok" /\ last.args.ret = 0)

\* the inode a path names on the image, for the paths of the root
InodeOf(d, path) == InodeAt(d, Visible(d, path))

\* C34: unlink of the last link frees everything.  When unlink takes the
\* last link of a regular file, the inode's bitmap bit is cleared, the
\* block-bitmap bit of every block reachable from the inode (data blocks,
\* single-indirect, double-indirect and level-1 index blocks) is cleared,
\* whatever blocks of the file are allocated, and no other bit changes.
C34_UnlinkFreesEverything ==
    [][(/\ last'.op = "unlink"
        /\ last'.err = "ok"
        /\ Visible(disk, last'.args.path) # -1
        /\ FileType(InodeOf(disk, last'.args.path).mode) = S_IFREG
        /\ InodeOf(disk, last'.args.path).nlink = 1)
        => /\ inode_bitmap' = inode_bitmap \ {Visible(disk, last'.args.path)}
           /\ block_bitmap' = block_bitmap \ BlockPointers(disk, InodeOf(disk, last'.args.path))]_vars

\* the logical block indices looked at
LogicalSample == 0 .. (DOUBLY_LIMIT + AddrsPerBlock + 1)

\* an index block of the file that lists no block
EmptyIndexBlock(d, inode) ==
    \E a \in IndexBlocks(d, inode) : IndexEntries(d, a) = {}

\* C35: truncate shrink.  After truncate has shrunk a file to length len,
\* the data blocks of logical index ceil(len/B) and above are freed, those
\* below keep their address and contents, and every index block that
\* references no remaining block is freed and its pointer cleared.
C35_TruncateShrink ==
    [][(/\ last'.op = "truncate"
        /\ last'.err = "ok"
        /\ last'.args.length <= InodeOf(disk, last'.args.path).size)
        => /\ \A idx \in LogicalSample :
                IF idx < ceil_div(last'.args.length, BlockSize)
                THEN /\ StoredAddr(disk', InodeOf(disk', last'.args.path), idx)
                            = StoredAddr(disk, InodeOf(disk, last'.args.path), idx)
                     /\ StoredAddr(disk, InodeOf(disk, last'.args.path), idx) # 0
                            => disk'[StoredAddr(disk, InodeOf(disk, last'.args.path), idx)]
                                = disk[StoredAddr(disk, InodeOf(disk, last'.args.path), idx)]
                ELSE /\ StoredAddr(disk', InodeOf(disk', last'.args.path), idx) = 0
                     /\ StoredAddr(disk, InodeOf(disk, last'.args.path), idx) \notin block_bitmap' \ {0}
           /\ ~EmptyIndexBlock(disk', InodeOf(disk', last'.args.path))
           /\ \A a \in IndexBlocks(disk, InodeOf(disk, last'.args.path)) :
                a \in IndexBlocks(disk', InodeOf(disk', last'.args.path)) \/ a \notin block_bitmap']_vars

\* the blocks of image d that hold metadata: the bitmaps, the inode table
\* and the index blocks of the files
MetadataBlocks(d) ==
    {InodeBitmapStart, BlockBitmapStart, InodeTableStart} \cup {a \in DataBlocks : IsIndexBlock(d, a)}

\* C37: metadata is written only through the journal.  An operation writes
\* a metadata block (inode-table block, bitmap block, index block) to its
\* final location only in the checkpoint step of its committed transaction.
C37_MetadataThroughJournal ==
    (last.op \in FsOps) =>
        \A k \in 1 .. Len(last.wlog) :
            (last.wlog[k].a \in MetadataBlocks(disk)) => (last.wlog[k].st = "checkpoint")

(***************************************************************************)
(* Paths below the root.  The process is mounted on the fresh image, or    *)
(* has made the directory /a and the file /a/x; directories, files and     *)
(* symbolic links to "a", "/a" and "/b" are made, renamed and removed in   *)
(* the root, and _lookup is called on /a, /b, /a/x and /b/x.               *)
(***************************************************************************)
NameX == <<120>>

PathAX == Path(TRUE, <<NameA, NameX>>)

PathBX == Path(TRUE, <<NameB, NameX>>)

TreePaths == {PathA, PathB, PathAX, PathBX}

\* "a", "/a" and "/b"
LinkSources == {NameA, <<47>> \o NameA, <<47>> \o NameB}

InitTree ==
    /\ \E r0 \in {Mounted(MakeImage)} :
        \E r1 \in {Mkdir(r0, PathA)} :
        \E r \in {r0, Create(r1, PathAX)} : Process(r)
    /\ mounted = TRUE
    /\ nops = 0
    /\ ncrash = 0
    /\ last = Last("mount", NoArgs, "ok", <<>>)

\* _lookup; what it returned is kept with the step
DoLookup ==
    \E p \in TreePaths, s \in {Cur} :
        \E r \in {Lookup(s, p)} : Ended(r, "lookup", [path |-> p, ret |-> r.ret])

DoSymlinkDir ==
    \E target \in Paths, source \in LinkSources, s \in {Cur} :
        \E r \in {Symlink(s, target, source)} : Finish(r, "symlink", [target |-> target, source |-> source])

NextTree ==
    \/ DoLookup
    \/ DoSymlinkDir
    \/ DoCreate
    \/ DoMkdir
    \/ DoRename
    \/ DoUnlink
    \/ DoRmdir

SpecTree == InitTree /\ [][NextTree]_vars

\* what the walk of _lookup from the root finds for path in the running
\* process, the dentry cache left out: an inode, or -1
Uncached(path) ==
    CHOOSE v \in {IF r.err = "ok" THEN r.ret ELSE -1 : r \in {Walk(Cur, path.segs, ROOT_INO, MaxWalk)}} : TRUE

\* the target of the symbolic link inode i of image d
TargetBytes(d, i) ==
    CHOOSE t \in {r.ret : r \in {LinkTarget(Mounted(d), InodeAt(d, i))}} : TRUE

\* the first segment of path names, in the root of image d, a symbolic
\* link whose target names a directory
LinkToDirectory(d, path) ==
    /\ Visible(d, Path(TRUE, <<path.segs[1]>>)) # -1
    /\ FileType(InodeAt(d, FindName(DirEntriesOf(d, ROOT_INO), path.segs[1])).mode) = S_IFLNK
    /\ Visible(d, Path(TRUE, SplitSegs(TargetBytes(d, FindName(DirEntriesOf(d, ROOT_INO), path.segs[1])), <<>>))) # -1
    /\ FileType(InodeAt(d, Visible(d, Path(TRUE, SplitSegs(TargetBytes(d, FindName(DirEntriesOf(d, ROOT_INO), path.segs[1])), <<>>)))).mode) = S_IFDIR

\* path with its first segment, a symbolic link of the root, replaced by
\* the link's target
Spliced(d, path) ==
    Path(TRUE, SplitSegs(TargetBytes(d, FindName(DirEntriesOf(d, ROOT_INO), path.segs[1])), <<>>) \o Tail(path.segs))

\* C36: symlink following in lookup.  For a path whose non-final segment
\* is a symbolic link to a directory (the link being in the root, a
\* relative target and an absolute one name the same directory), a lookup
\* that walks the path returns what the lookup of the path with the target
\* in place of the link returns.
C36_SymlinkFollowing ==
    [][(/\ last'.op = "lookup"
        /\ Len(last'.args.path.segs) = 2
        /\ DcGet(dentry_cache, last'.args.path) = -1
        /\ LinkToDirectory(disk, last'.args.path))
        => (IF last'.err = "ok" THEN last'.args.ret ELSE -1) = Visible(disk, Spliced(disk, last'.args.path))]_vars

\* the names of the entries of directory j of image d are all different
UniqueNames(d, j) ==
    \A e1, e2 \in 1 .. Len(DirEntriesOf(d, j)) :
        (DirEntriesOf(d, j)[e1][2] = DirEntriesOf(d, j)[e2][2]) => (e1 = e2)

\* C38: names are unique within a directory.  After any sequence of
\* operations, no directory block has two entries of the same name.
C38_UniqueNames ==
    mounted => \A j \in AllocatedInodes(disk) : (FileType(InodeAt(disk, j).mode) = S_IFDIR) => UniqueNames(disk, j)

\* C39: lookup terminates.  _lookup returns an inode or raises an error
\* for every path, on images with symbolic links that name themselves or
\* each other as well.
C39_LookupTerminates ==
    (last.op = "lookup") => (last.err # "NoReturn")

\* C40: dentry cache coherence.  After any sequence of operations, every
\* (path, inode) entry of the dentry cache is what a walk of the path from
\* the root, without the cache, returns.
C40_DentryCacheCoherent ==
    mounted => \A e \in dentry_cache : Uncached(e[1]) = e[2]

=============================================================================
